---- MODULE Spec2Model ----
(***************************************************************************)
(* OmniDrive MCP server: the path sandbox, the file tools that sit behind  *)
(* it, and the origin-pairing layer of the network transport.              *)
(*                                                                         *)
(* Text is modelled at character level: a string is a sequence of          *)
(* one-character strings, so that the sandbox's string tests (contains,    *)
(* starts_with, the boundary character) are computed as the code computes  *)
(* them.  The filesystem is a Unix one: "/" is the only separator the      *)
(* kernel knows, "\" is an ordinary character of a name, and symbolic      *)
(* links are followed by every open/stat.                                  *)
(***************************************************************************)
EXTENDS Naturals, Sequences, FiniteSets, TLC

VARIABLES
    fs,        \* the filesystem: real path (string) -> node
    config,    \* the server's in-memory AppConfig
    call,      \* the last operation performed and its outcome
    journal,   \* the audit journal: the sequence of appended entries
    pairings,  \* the approved-origin file ~/.omnidrive/pairings.json
    cmd,       \* the control-surface command in progress (approve/revoke)
    hist,      \* per origin, the last completed approve/revoke; where one
               \* function is examined, the arguments drawn at the start
    ncalls,    \* number of operations performed so far
    srv        \* the server process: the config file it watches, the watcher's
               \* events, the channel, the reload task, the calls in progress

vars == <<fs, config, call, journal, pairings, cmd, hist, ncalls, srv>>

(***************************************************************************)
(* Bounds of the model.                                                    *)
(***************************************************************************)
\* longest generated suffix appended to a base path when probing validate_path
MaxSuffix == 2
\* symbolic links followed in one path resolution before giving up (ELOOP)
MaxLinks == 2
\* tool calls of one run
MaxCalls == 2
\* the size of the journal above which it is rotated, and the lines kept:
\* scaled down from MAX_LOG_SIZE_BYTES = 2 MiB (activity.rs 42) and
\* keep_count = 500 (activity.rs 110) so that a rotation happens within a run
MaxLogBytes == 12
KeepLines == 2
\* the width of usize in bits (64 in the program)
UsizeBits == 8

\* F of the value of e: a let that evaluates e once
With(e, F(_)) == CHOOSE r \in { F(x) : x \in {e} } : TRUE

(***************************************************************************)
(* Strings.                                                                *)
(***************************************************************************)
Sep == "/"
BSep == "\\"
Dot == "."
NL == "\n"
SP == " "

\* str::starts_with
StartsWith(s, pre) ==
    Len(pre) <= Len(s) /\ SubSeq(s, 1, Len(pre)) = pre

\* str::ends_with
EndsWith(s, suf) ==
    Len(suf) <= Len(s) /\ SubSeq(s, Len(s) - Len(suf) + 1, Len(s)) = suf

\* str::contains
Contains(s, sub) ==
    \E i \in 1..(Len(s) + 1) :
        i + Len(sub) - 1 <= Len(s) /\ SubSeq(s, i, i + Len(sub) - 1) = sub

\* the rest of s from position i on
From(s, i) == SubSeq(s, i, Len(s))

\* index of the first occurrence of character c in s, or 0
RECURSIVE FindChar(_, _, _)
FindChar(s, c, i) ==
    IF i > Len(s) THEN 0
    ELSE IF s[i] = c THEN i
    ELSE FindChar(s, c, i + 1)

\* str::split on one character: the pieces, empty ones included
RECURSIVE SplitOn(_, _)
SplitOn(s, c) ==
    LET k == FindChar(s, c, 1) IN
    IF k = 0 THEN <<s>>
    ELSE <<SubSeq(s, 1, k - 1)>> \o SplitOn(From(s, k + 1), c)

\* str::lines: split at "\n"; a final line terminator yields no empty last line
Lines(s) ==
    IF s = <<>> THEN <<>>
    ELSE IF s[Len(s)] = NL THEN SplitOn(SubSeq(s, 1, Len(s) - 1), NL)
    ELSE SplitOn(s, NL)

\* str::trim for the white space of the model (space)
RECURSIVE TrimStart(_)
TrimStart(s) ==
    IF s # <<>> /\ s[1] = SP THEN TrimStart(Tail(s)) ELSE s

RECURSIVE TrimEnd(_)
TrimEnd(s) ==
    IF s # <<>> /\ s[Len(s)] = SP THEN TrimEnd(SubSeq(s, 1, Len(s) - 1)) ELSE s

Trim(s) == TrimEnd(TrimStart(s))

\* slice::join
RECURSIVE JoinWith(_, _)
JoinWith(parts, c) ==
    IF parts = <<>> THEN <<>>
    ELSE IF Len(parts) = 1 THEN parts[1]
    ELSE parts[1] \o <<c>> \o JoinWith(Tail(parts), c)

(***************************************************************************)
(* std::path on Unix.                                                      *)
(***************************************************************************)
Root == <<Sep>>
DotDot == <<Dot, Dot>>

\* Path::is_absolute
is_absolute(p) == p # <<>> /\ p[1] = Sep

\* the pieces that are components: not empty, not "."
RECURSIVE KeepNormal(_)
KeepNormal(parts) ==
    IF parts = <<>> THEN <<>>
    ELSE IF Head(parts) = <<>> \/ Head(parts) = <<Dot>>
         THEN KeepNormal(Tail(parts))
         ELSE <<Head(parts)>> \o KeepNormal(Tail(parts))

\* Path::components, without the root: repeated separators and "." vanish,
\* ".." stays a component
Components(p) == KeepNormal(SplitOn(p, Sep))

\* the absolute path with these components
PathOf(comps) == IF comps = <<>> THEN Root ELSE <<Sep>> \o JoinWith(comps, Sep)

\* Path::join: an absolute argument replaces the base
PathJoin(base, p) ==
    IF is_absolute(p) THEN p
    ELSE IF base # <<>> /\ base[Len(base)] = Sep THEN base \o p
    ELSE base \o <<Sep>> \o p

Child(dir, name) == PathJoin(dir, name)

\* Path::parent of a normalised absolute path
Parent(p) ==
    LET c == Components(p) IN
    IF c = <<>> THEN Root ELSE PathOf(SubSeq(c, 1, Len(c) - 1))

\* Path::file_name of a normalised path
FileName(p) ==
    LET c == Components(p) IN IF c = <<>> THEN <<>> ELSE c[Len(c)]

\* Path::starts_with: whole components, never part of a name
PathStartsWith(p, base) ==
    is_absolute(p) = is_absolute(base)
    /\ LET a == Components(p)
           b == Components(base) IN
       Len(b) <= Len(a) /\ SubSeq(a, 1, Len(b)) = b

\* Components::as_path trims what is no component at the front ...
RECURSIVE TrimLeftPath(_)
TrimLeftPath(s) ==
    IF s = <<>> THEN s
    ELSE IF s[1] = Sep THEN TrimLeftPath(Tail(s))
    ELSE IF s[1] = Dot /\ (Len(s) = 1 \/ s[2] = Sep) THEN TrimLeftPath(Tail(s))
    ELSE s

\* ... and at the back
RECURSIVE TrimRightPath(_)
TrimRightPath(s) ==
    IF s = <<>> THEN s
    ELSE IF s[Len(s)] = Sep THEN TrimRightPath(SubSeq(s, 1, Len(s) - 1))
    ELSE IF s[Len(s)] = Dot /\ Len(s) >= 2 /\ s[Len(s) - 1] = Sep
         THEN TrimRightPath(SubSeq(s, 1, Len(s) - 1))
    ELSE s

\* drop the first n components of the raw text of a path
RECURSIVE DropComponents(_, _)
DropComponents(s, n) ==
    LET t == TrimLeftPath(s) IN
    IF n = 0 THEN t
    ELSE LET k == FindChar(t, Sep, 1) IN
         IF k = 0 THEN <<>> ELSE DropComponents(From(t, k), n - 1)

\* Path::strip_prefix followed by to_string_lossy: the remainder is a slice of
\* the ORIGINAL text, so a doubled separator or a "." inside it is kept
strip_prefix(p, base) ==
    IF PathStartsWith(p, base)
    THEN [ok |-> TRUE,
          rel |-> TrimRightPath(DropComponents(p, Len(Components(base))))]
    ELSE [ok |-> FALSE, rel |-> <<>>]

(***************************************************************************)
(* The filesystem.  A node is a directory, a regular file or a symbolic    *)
(* link; a regular file holds text (data) or is a zip archive (zip, with   *)
(* its entries).  fs maps the real path of every existing node to it.      *)
(***************************************************************************)
DirNode == [kind |-> "dir", data |-> <<>>, target |-> <<>>, zip |-> FALSE, entries |-> <<>>]
FileNode(d) == [kind |-> "file", data |-> d, target |-> <<>>, zip |-> FALSE, entries |-> <<>>]
LinkNode(t) == [kind |-> "link", data |-> <<>>, target |-> t, zip |-> FALSE, entries |-> <<>>]
ZipNode(es) == [kind |-> "file", data |-> <<>>, target |-> <<>>, zip |-> TRUE, entries |-> es]

\* the kernel's path resolution: the real path a path names.  Links met on the
\* way are followed; the last component's link is followed when follow is set
\* (open, stat) and not otherwise (unlink, rename).  A path may name a node
\* that does not exist yet, below directories that exist or not.
RECURSIVE Walk(_, _, _, _, _)
Walk(f, cur, comps, fuel, follow) ==
    IF comps = <<>> THEN [ok |-> TRUE, path |-> cur]
    ELSE LET c == Head(comps)
             rest == Tail(comps) IN
         IF c = DotDot THEN Walk(f, Parent(cur), rest, fuel, follow)
         ELSE IF cur \in DOMAIN f /\ f[cur].kind # "dir"
              THEN [ok |-> FALSE, path |-> cur]
         ELSE LET nxt == Child(cur, c) IN
              IF nxt \in DOMAIN f /\ f[nxt].kind = "link" /\ (follow \/ rest # <<>>)
              THEN IF fuel = 0 THEN [ok |-> FALSE, path |-> nxt]
                   ELSE Walk(f,
                             IF is_absolute(f[nxt].target) THEN Root ELSE cur,
                             Components(f[nxt].target) \o rest, fuel - 1, follow)
              ELSE Walk(f, nxt, rest, fuel, follow)

Real(f, p) == Walk(f, Root, Components(p), MaxLinks, TRUE)
RealNoFollow(f, p) == Walk(f, Root, Components(p), MaxLinks, FALSE)

\* Path::exists, is_file, is_dir: all follow links
exists(f, p) == LET r == Real(f, p) IN r.ok /\ r.path \in DOMAIN f
is_file(f, p) == exists(f, p) /\ f[Real(f, p).path].kind = "file"
is_dir(f, p) == exists(f, p) /\ f[Real(f, p).path].kind = "dir"

\* fs::canonicalize: the real path, which must exist
canonicalize(f, p) ==
    LET r == Real(f, p) IN
    IF r.ok /\ r.path \in DOMAIN f THEN [ok |-> TRUE, path |-> r.path]
    ELSE [ok |-> FALSE, path |-> <<>>]

(***************************************************************************)
(* glob::Pattern (crate glob 0.3), for the pattern characters of the       *)
(* model: literal characters, ?, * and **.                                 *)
(***************************************************************************)
Star == "*"
Quest == "?"

TChar(c) == [t |-> "char", c |-> c]
TAnyChar == [t |-> "any", c |-> Quest]
TAnySequence == [t |-> "seq", c |-> Star]
TAnyRecursiveSequence == [t |-> "rec", c |-> Star]

\* number of consecutive stars of chars from position i on
RECURSIVE StarRun(_, _)
StarRun(chars, i) ==
    IF i <= Len(chars) /\ chars[i] = Star THEN 1 + StarRun(chars, i + 1) ELSE 0

\* Pattern::new: the token list, or an error
RECURSIVE ParsePattern(_, _, _)
ParsePattern(chars, i, tokens) ==
    IF i > Len(chars) THEN [ok |-> TRUE, tokens |-> tokens]
    ELSE IF chars[i] = Quest THEN ParsePattern(chars, i + 1, Append(tokens, TAnyChar))
    ELSE IF chars[i] = Star THEN
        LET count == StarRun(chars, i)
            j == i + count IN
        IF count > 2 THEN [ok |-> FALSE, tokens |-> <<>>]
        ELSE IF count = 2 THEN
            \* ** can only be an entire path component
            IF i = 1 \/ chars[i - 1] = Sep
            THEN IF j <= Len(chars) /\ chars[j] # Sep
                 THEN [ok |-> FALSE, tokens |-> <<>>]
                 ELSE ParsePattern(chars,
                          IF j <= Len(chars) THEN j + 1 ELSE j,
                          IF Len(tokens) > 1 /\ tokens[Len(tokens)] = TAnyRecursiveSequence
                          THEN tokens
                          ELSE Append(tokens, TAnyRecursiveSequence))
            ELSE [ok |-> FALSE, tokens |-> <<>>]
        ELSE ParsePattern(chars, j, Append(tokens, TAnySequence))
    ELSE ParsePattern(chars, i + 1, Append(tokens, TChar(chars[i])))

Pattern_new(chars) == ParsePattern(chars, 1, <<>>)

\* Pattern::matches_from under MatchOptions::new(): "Match", "Sub" (this
\* sub-pattern does not match) or "Entire" (the file ended too early)
RECURSIVE MatchFrom(_, _, _, _, _)
RECURSIVE MatchSeq(_, _, _, _, _)
MatchFrom(toks, file, follows_separator, pos, ti) ==
    IF ti > Len(toks) THEN (IF pos > Len(file) THEN "Match" ELSE "Sub")
    ELSE IF toks[ti].t \in {"seq", "rec"} THEN
        LET empty == MatchFrom(toks, file, follows_separator, pos, ti + 1) IN
        IF empty # "Sub" THEN empty
        ELSE MatchSeq(toks, file, follows_separator, pos, ti)
    ELSE IF pos > Len(file) THEN "Entire"
    ELSE IF toks[ti].t = "char" /\ toks[ti].c # file[pos] THEN "Sub"
    ELSE MatchFrom(toks, file, file[pos] = Sep, pos + 1, ti + 1)

\* the loop of a * or ** token over the characters that are left
MatchSeq(toks, file, follows_separator, pos, ti) ==
    IF pos > Len(file)
    THEN MatchFrom(toks, file, follows_separator, pos, ti + 1)
    ELSE LET sep == (file[pos] = Sep) IN
         IF toks[ti].t = "rec" /\ ~sep
         THEN MatchSeq(toks, file, sep, pos + 1, ti)
         ELSE LET m == MatchFrom(toks, file, sep, pos + 1, ti + 1) IN
              IF m # "Sub" THEN m
              ELSE MatchSeq(toks, file, sep, pos + 1, ti)

\* Pattern::matches
matches(toks, file) == MatchFrom(toks, file, TRUE, 1, 1) = "Match"

(***************************************************************************)
(* Configuration (config.rs).                                              *)
(***************************************************************************)
ReadOnly == "readonly"
ReadWrite == "readwrite"

SharedFolder(path, permission, enabled) ==
    [path |-> path, permission |-> permission, enabled |-> enabled]

\* max_file_size_mb of AppConfig::default()
DefaultMaxFileSizeMb == 50

AppConfig(folders) == [folders |-> folders, max_file_size_mb |-> DefaultMaxFileSizeMb]

(***************************************************************************)
(* The path sandbox (sandbox.rs).                                          *)
(***************************************************************************)
\* the working directory of the server process
Cwd == <<"/", "s", "/", "d">>

IgnoreName == <<".", "m", "c", "p", "i", "g", "n", "o", "r", "e">>
Hash == "#"

\* one line of .mcpignore against the path relative to the folder root
RuleMatches(line, relative) ==
    With(Trim(line), LAMBDA pattern :
    IF pattern = <<>> \/ pattern[1] = Hash THEN FALSE
    ELSE LET glob_str == IF Contains(pattern, <<Sep>>) THEN pattern
                         ELSE <<Star, Star, Sep>> \o pattern IN
         With(Pattern_new(glob_str), LAMBDA compiled :
         With(Pattern_new(glob_str \o <<Sep, Star, Star>>), LAMBDA compiled_deep :
         compiled.ok
         /\ (matches(compiled.tokens, relative)
             \/ (compiled_deep.ok /\ matches(compiled_deep.tokens, relative))))))

\* the .mcpignore of a folder root is a directory: File::open succeeds on it
\* and BufRead::lines then yields a read error for ever, so the loop over the
\* lines never ends
ignore_diverges(f, target, folder_root) ==
    LET ignore_file == Child(folder_root, IgnoreName) IN
    /\ is_dir(f, ignore_file)
    /\ strip_prefix(target, folder_root).ok

\* is_ignored: is target excluded by the .mcpignore of folder_root
is_ignored(f, target, folder_root) ==
    LET ignore_file == Child(folder_root, IgnoreName) IN
    IF ~is_file(f, ignore_file) THEN FALSE
    ELSE With(strip_prefix(target, folder_root), LAMBDA rel :
         IF ~rel.ok THEN FALSE
         ELSE With(Lines(f[Real(f, ignore_file).path].data), LAMBDA lines :
              \E i \in 1..Len(lines) : RuleMatches(lines[i], rel.rel)))

Denied(reason, target) == [ok |-> FALSE, reason |-> reason, folder |-> 0, path |-> target]
Validated(i, target) == [ok |-> TRUE, reason |-> "ok", folder |-> i, path |-> target]

\* mutant of BoundaryOk: the boundary character is not looked at
BoundaryOk_prefix_only(remaining) == TRUE

\* the boundary test on what follows the folder root in the target
BoundaryOk(remaining) ==
    remaining = <<>> \/ remaining[1] = Sep \/ remaining[1] = BSep

\* what validate_path does with folder i once its root contains the target
FolderVerdict(f, target, i, root) ==
    IF ignore_diverges(f, target, root) THEN Denied("diverges", target)
    ELSE IF is_ignored(f, target, root) THEN Denied("excluded", target)
    ELSE Validated(i, target)

\* mutant of ScanFolders: a folder whose rules exclude the target is passed
\* over and the later folders are tried
RECURSIVE ScanFolders_skip_excluded(_, _, _, _)
ScanFolders_skip_excluded(f, cfg, target, i) ==
    IF i > Len(cfg.folders) THEN Denied("outside", target)
    ELSE LET folder == cfg.folders[i]
             can == canonicalize(f, folder.path) IN
         IF folder.enabled /\ can.ok /\ StartsWith(target, can.path)
            /\ BoundaryOk(From(target, Len(can.path) + 1))
            /\ ~is_ignored(f, target, can.path)
         THEN Validated(i, target)
         ELSE ScanFolders_skip_excluded(f, cfg, target, i + 1)

\* the loop of validate_path over config.folders, from folder i on
RECURSIVE ScanFolders(_, _, _, _)
ScanFolders(f, cfg, target, i) ==
    IF i > Len(cfg.folders) THEN Denied("outside", target)
    ELSE LET folder == cfg.folders[i]
             can == canonicalize(f, folder.path) IN
         IF folder.enabled /\ can.ok /\ StartsWith(target, can.path)
            /\ BoundaryOk(From(target, Len(can.path) + 1))
         THEN FolderVerdict(f, target, i, can.path)
         ELSE ScanFolders(f, cfg, target, i + 1)

\* the absolute form of a path, which need not exist
target_abs(path) == IF is_absolute(path) THEN path ELSE PathJoin(Cwd, path)

validate_path(f, cfg, path) ==
    With(target_abs(path), LAMBDA target :
    IF Contains(target, DotDot) THEN Denied("traversal", target)
    ELSE ScanFolders(f, cfg, target, 1))

\* mutant of validate_writable: the permission of the folder is not looked at
validate_writable_any_permission(f, cfg, path) == validate_path(f, cfg, path)

validate_writable(f, cfg, path) ==
    With(validate_path(f, cfg, path), LAMBDA v :
    IF ~v.ok THEN v
    ELSE IF cfg.folders[v.folder].permission # ReadWrite THEN Denied("readonly", v.path)
    ELSE v)

validate_destructive(f, cfg, path) ==
    With(validate_writable(f, cfg, path), LAMBDA v :
    IF ~v.ok THEN v
    ELSE IF ~exists(f, v.path) THEN Denied("notfound", v.path)
    ELSE v)

(***************************************************************************)
(* File types (sandbox.rs).  The names of the model are lower case, on     *)
(* which to_lowercase changes nothing.                                     *)
(***************************************************************************)
supported_extensions ==
    {
      <<"r", "s">>, <<"p", "y">>, <<"j", "s">>, <<"t", "s">>, <<"t", "s", "x">>,
      <<"j", "s", "x">>, <<"g", "o">>, <<"j", "a", "v", "a">>, <<"c">>, <<"c", "p", "p">>,
      <<"h">>, <<"h", "p", "p">>, <<"r", "b">>, <<"p", "h", "p">>, <<"s", "w", "i", "f", "t">>,
      <<"k", "t">>, <<"s", "h">>, <<"b", "a", "t">>, <<"p", "s", "1">>, <<"r">>,
      <<"s", "c", "a", "l", "a">>, <<"l", "u", "a">>, <<"d", "a", "r", "t">>, <<"z", "i", "g">>,
      <<"n", "i", "m">>, <<"e", "x">>, <<"e", "x", "s">>, <<"c", "l", "j">>, <<"h", "s">>,
      <<"m", "l">>, <<"f", "s">>, <<"c", "s">>, <<"t", "x", "t">>, <<"m", "d">>,
      <<"c", "s", "v">>, <<"l", "o", "g">>, <<"e", "n", "v">>,
      <<"g", "i", "t", "i", "g", "n", "o", "r", "e">>,
      <<"d", "o", "c", "k", "e", "r", "i", "g", "n", "o", "r", "e">>, <<"j", "s", "o", "n">>,
      <<"y", "a", "m", "l">>, <<"y", "m", "l">>, <<"t", "o", "m", "l">>, <<"x", "m", "l">>,
      <<"h", "t", "m", "l">>, <<"h", "t", "m">>, <<"c", "s", "s">>, <<"s", "c", "s", "s">>,
      <<"l", "e", "s", "s">>, <<"s", "q", "l">>, <<"g", "r", "a", "p", "h", "q", "l">>,
      <<"p", "r", "o", "t", "o">>, <<"i", "n", "i">>, <<"c", "f", "g">>, <<"c", "o", "n", "f">>,
      <<"p", "d", "f">>, <<"p", "n", "g">>, <<"j", "p", "g">>, <<"j", "p", "e", "g">>,
      <<"g", "i", "f">>, <<"w", "e", "b", "p">>, <<"s", "v", "g">>, <<"b", "m", "p">>,
      <<"i", "c", "o">> }

extensionless_supported ==
    {
      <<"M", "a", "k", "e", "f", "i", "l", "e">>,
      <<"D", "o", "c", "k", "e", "r", "f", "i", "l", "e">>,
      <<"J", "e", "n", "k", "i", "n", "s", "f", "i", "l", "e">>,
      <<"V", "a", "g", "r", "a", "n", "t", "f", "i", "l", "e">>,
      <<"G", "e", "m", "f", "i", "l", "e">>, <<"R", "a", "k", "e", "f", "i", "l", "e">>,
      <<"P", "r", "o", "c", "f", "i", "l", "e">>, <<"L", "I", "C", "E", "N", "S", "E">>,
      <<"R", "E", "A", "D", "M", "E">>, <<"C", "H", "A", "N", "G", "E", "L", "O", "G">>,
      <<"C", "O", "N", "T", "R", "I", "B", "U", "T", "I", "N", "G">>,
      <<"A", "U", "T", "H", "O", "R", "S">> }

binary_extensions ==
    {
      <<"p", "n", "g">>, <<"j", "p", "g">>, <<"j", "p", "e", "g">>, <<"g", "i", "f">>,
      <<"w", "e", "b", "p">>, <<"b", "m", "p">>, <<"i", "c", "o">>, <<"p", "d", "f">> }

\* position of the last "." of a name, or 0
RECURSIVE LastDot(_, _)
LastDot(name, i) ==
    IF i = 0 THEN 0 ELSE IF name[i] = Dot THEN i ELSE LastDot(name, i - 1)

\* Path::extension of a file name: what follows the last ".", none for a name
\* without ".", for ".." and for a name whose only "." is its first character
Extension(name) ==
    LET k == LastDot(name, Len(name)) IN
    IF name = DotDot \/ k <= 1 THEN [some |-> FALSE, ext |-> <<>>]
    ELSE [some |-> TRUE, ext |-> From(name, k + 1)]

is_supported_extension(filename) ==
    LET e == Extension(FileName(filename)) IN
    IF e.some THEN e.ext \in supported_extensions
    ELSE FileName(filename) \in extensionless_supported

is_binary_file(filename) ==
    LET e == Extension(FileName(filename)) IN
    e.some /\ e.ext \in binary_extensions

is_pdf(filename) ==
    LET e == Extension(FileName(filename)) IN
    e.some /\ e.ext = <<"p", "d", "f">>

(***************************************************************************)
(* std::fs operations on the filesystem.  Each yields ok, the new          *)
(* filesystem, and the real paths it read (rd) or changed (wr).            *)
(***************************************************************************)
FsOk(f, rd, wr) == [ok |-> TRUE, fs |-> f, rd |-> rd, wr |-> wr]
FsErr(f) == [ok |-> FALSE, fs |-> f, rd |-> {}, wr |-> {}]

\* the real paths of a node and of everything below it
Subtree(f, rp) == { q \in DOMAIN f : PathStartsWith(q, rp) }
Children(f, rp) == { q \in DOMAIN f : q # rp /\ Parent(q) = rp }

\* the prefixes of a path, shortest first, the path itself included
Prefixes(p) ==
    LET c == Components(p) IN { PathOf(SubSeq(c, 1, k)) : k \in 1..Len(c) }

\* the filesystem without the nodes of a set of paths
Without(f, gone) == [q \in (DOMAIN f) \ gone |-> f[q]]

\* fs::create_dir_all: the directory and every missing ancestor
create_dir_all(f, p) ==
    LET r == Real(f, p) IN
    IF ~r.ok THEN FsErr(f)
    ELSE IF r.path \in DOMAIN f
         THEN (IF f[r.path].kind = "dir" THEN FsOk(f, {}, {}) ELSE FsErr(f))
    ELSE LET new == { q \in Prefixes(r.path) : q \notin DOMAIN f } IN
         FsOk([q \in new |-> DirNode] @@ f, {}, new)

\* File::create followed by a write of the whole content (fs::write, io::copy)
write_node(f, p, node) ==
    LET r == Real(f, p) IN
    IF ~r.ok \/ r.path = Root THEN FsErr(f)
    ELSE IF ~(Parent(r.path) \in DOMAIN f /\ f[Parent(r.path)].kind = "dir") THEN FsErr(f)
    ELSE IF r.path \in DOMAIN f /\ f[r.path].kind # "file" THEN FsErr(f)
    ELSE FsOk((r.path :> node) @@ f, {}, {r.path})

\* File::open and a read of the whole content
read_node(f, p) ==
    LET r == Real(f, p) IN
    IF r.ok /\ r.path \in DOMAIN f /\ f[r.path].kind = "file"
    THEN [ok |-> TRUE, node |-> f[r.path], rd |-> {r.path}]
    ELSE [ok |-> FALSE, node |-> DirNode, rd |-> {}]

\* fs::remove_file: unlink, which does not follow a link in the last place
remove_file(f, p) ==
    LET r == RealNoFollow(f, p) IN
    IF r.ok /\ r.path \in DOMAIN f /\ f[r.path].kind # "dir"
    THEN FsOk(Without(f, {r.path}), {}, {r.path})
    ELSE FsErr(f)

\* fs::remove_dir: an empty directory only
remove_dir(f, p) ==
    LET r == RealNoFollow(f, p) IN
    IF r.ok /\ r.path \in DOMAIN f /\ f[r.path].kind = "dir"
       /\ Children(f, r.path) = {} /\ r.path # Root
    THEN FsOk(Without(f, {r.path}), {}, {r.path})
    ELSE FsErr(f)

\* the device a real path is on: every top-level directory is a mount
Device(rp) == LET c == Components(rp) IN IF c = <<>> THEN <<>> ELSE c[1]

\* the path q of the subtree of src, moved below dst
Rebase(q, src, dst) ==
    PathOf(Components(dst) \o SubSeq(Components(q), Len(Components(src)) + 1, Len(Components(q))))

\* fs::rename: fails across devices (EXDEV), onto or into what it cannot
\* replace, and when the destination's directory is missing
rename(f, src, dst) ==
    LET s == RealNoFollow(f, src)
        d == RealNoFollow(f, dst) IN
    IF ~(s.ok /\ d.ok /\ s.path \in DOMAIN f) \/ s.path = Root \/ d.path = Root THEN FsErr(f)
    ELSE IF Device(s.path) # Device(d.path) THEN FsErr(f)
    ELSE IF ~(Parent(d.path) \in DOMAIN f /\ f[Parent(d.path)].kind = "dir") THEN FsErr(f)
    ELSE IF PathStartsWith(d.path, s.path) /\ d.path # s.path THEN FsErr(f)
    ELSE IF d.path \in DOMAIN f /\ (f[d.path].kind = "dir") # (f[s.path].kind = "dir") THEN FsErr(f)
    ELSE IF d.path \in DOMAIN f /\ f[d.path].kind = "dir" /\ Children(f, d.path) # {} THEN FsErr(f)
    ELSE IF d.path = s.path THEN FsOk(f, {}, {})
    ELSE LET moved == Subtree(f, s.path)
             kept == Without(f, moved \cup {d.path}) IN
         FsOk([q \in { Rebase(m, s.path, d.path) : m \in moved } |->
                  f[CHOOSE m \in moved : Rebase(m, s.path, d.path) = q]] @@ kept,
              {}, moved \cup { Rebase(m, s.path, d.path) : m \in moved })

\* fs::copy: the content of one regular file into another, which is created or
\* truncated first (so a file copied onto itself ends up empty)
copy(f, src, dst) ==
    LET s == read_node(f, src)
        d == Real(f, dst) IN
    IF ~s.ok THEN FsErr(f)
    ELSE LET w == write_node(f, dst,
                     IF d.ok /\ d.path \in s.rd THEN FileNode(<<>>) ELSE s.node) IN
         IF ~w.ok THEN FsErr(f) ELSE FsOk(w.fs, s.rd, w.wr)

(***************************************************************************)
(* The activity journal (activity.rs): one entry per line.  The journal    *)
(* is rotated before an append when it is larger than MaxLogBytes: the     *)
(* last KeepLines lines stay, when there are more.  An entry counts for    *)
(* its path and its line end.                                              *)
(***************************************************************************)
ActivityEntry(tool, category, path) == [tool |-> tool, category |-> category, path |-> path]

RECURSIVE JournalBytes(_)
JournalBytes(j) ==
    IF j = <<>> THEN 0 ELSE Len(Head(j).path) + 1 + JournalBytes(Tail(j))

\* a rotation that keeps the oldest lines
rotate_log_keeps_oldest(j) ==
    IF Len(j) > KeepLines THEN SubSeq(j, 1, KeepLines) ELSE j

rotate_log(j) ==
    IF Len(j) > KeepLines THEN SubSeq(j, Len(j) - KeepLines + 1, Len(j)) ELSE j

log_activity(j, tool, category, path) ==
    Append(IF JournalBytes(j) > MaxLogBytes THEN rotate_log(j) ELSE j,
           ActivityEntry(tool, category, path))

(***************************************************************************)
(* The tools (tools.rs).  A tool yields its result (ok, or the error err), *)
(* the text it returns (out), the filesystem it leaves, the real paths of  *)
(* the files it read (rd) and of the nodes it created, changed or removed  *)
(* (wr), and the paths, as the tool named them, at which it created,       *)
(* overwrote or removed something (made).                                  *)
(***************************************************************************)
ToolOk(out, f, rd, wr, made) ==
    [ok |-> TRUE, err |-> "none", out |-> out, fs |-> f, rd |-> rd, wr |-> wr, made |-> made]
ToolErr(err, f, rd, wr, made) ==
    [ok |-> FALSE, err |-> err, out |-> <<>>, fs |-> f, rd |-> rd, wr |-> wr, made |-> made]

\* the directories create_dir_all will have to create, as paths
MissingDirs(f, p) == { q \in Prefixes(p) : ~exists(f, q) }

\* the real path of a node, without following a link in the last place
NodeOf(f, p) == RealNoFollow(f, p).path

\* what base64 makes of the bytes: another text, from which they can be read
Base64(data) == <<"base64">> \o data

MiB == 1024 * 1024

read_file(f, cfg, path) ==
    With(validate_path(f, cfg, path), LAMBDA v :
    IF ~v.ok THEN ToolErr(v.reason, f, {}, {}, {})
    ELSE LET file_path == v.path
             filename == FileName(file_path) IN
         IF ~exists(f, file_path) \/ ~is_file(f, file_path) THEN ToolErr("notfound", f, {}, {}, {})
         ELSE With(read_node(f, file_path), LAMBDA r :
              IF Len(r.node.data) > cfg.max_file_size_mb * MiB
              THEN ToolErr("toolarge", f, {}, {}, {})
              ELSE IF is_pdf(filename) THEN ToolErr("pdf", f, r.rd, {}, {})
              ELSE IF is_binary_file(filename) THEN ToolOk(Base64(r.node.data), f, r.rd, {}, {})
              ELSE IF is_supported_extension(filename) THEN ToolOk(r.node.data, f, r.rd, {}, {})
              ELSE ToolErr("unsupported", f, {}, {}, {})))

\* a write_file that appends to what the file held
write_file_appends(f, cfg, path, content) ==
    With(validate_writable(f, cfg, path), LAMBDA v :
    IF ~v.ok THEN ToolErr(v.reason, f, {}, {}, {})
    ELSE LET file_path == v.path
             old == IF is_file(f, file_path) THEN read_node(f, file_path).node.data ELSE <<>> IN
         With(MissingDirs(f, Parent(file_path)), LAMBDA dirs :
         With(create_dir_all(f, Parent(file_path)), LAMBDA c :
         IF ~c.ok THEN ToolErr("io", f, {}, {}, {})
         ELSE With(write_node(c.fs, file_path, FileNode(old \o content)), LAMBDA w :
              IF ~w.ok THEN ToolErr("io", c.fs, {}, c.wr, dirs)
              ELSE ToolOk(<<>>, w.fs, {}, c.wr \cup w.wr, dirs \cup {file_path})))))

write_file(f, cfg, path, content) ==
    With(validate_writable(f, cfg, path), LAMBDA v :
    IF ~v.ok THEN ToolErr(v.reason, f, {}, {}, {})
    ELSE LET file_path == v.path IN
         With(MissingDirs(f, Parent(file_path)), LAMBDA dirs :
         With(create_dir_all(f, Parent(file_path)), LAMBDA c :
         IF ~c.ok THEN ToolErr("io", f, {}, {}, {})
         ELSE With(write_node(c.fs, file_path, FileNode(content)), LAMBDA w :
              IF ~w.ok THEN ToolErr("io", c.fs, {}, c.wr, dirs)
              ELSE ToolOk(<<>>, w.fs, {}, c.wr \cup w.wr, dirs \cup {file_path})))))

delete_file(f, cfg, path) ==
    With(validate_destructive(f, cfg, path), LAMBDA v :
    IF ~v.ok THEN ToolErr(v.reason, f, {}, {}, {})
    ELSE LET target == v.path IN
         IF is_file(f, target)
         THEN With(remove_file(f, target), LAMBDA d :
              IF d.ok THEN ToolOk(<<>>, d.fs, {}, d.wr, {target})
              ELSE ToolErr("io", f, {}, {}, {}))
         ELSE IF is_dir(f, target)
         THEN With(remove_dir(f, target), LAMBDA d :
              IF d.ok THEN ToolOk(<<>>, d.fs, {}, d.wr, {target})
              ELSE ToolErr("io", f, {}, {}, {}))
         ELSE ToolErr("unknowntype", f, {}, {}, {}))

\* a move across devices that copies and leaves the source where it was
move_by_copy_keeps_source(f1, src, dst, wr, dirs) ==
    IF ~is_file(f1, src) THEN ToolErr("crossdevice", f1, {}, wr, dirs)
    ELSE With(copy(f1, src, dst), LAMBDA cp :
         IF ~cp.ok THEN ToolErr("io", f1, {}, wr, dirs)
         ELSE ToolOk(<<>>, cp.fs, cp.rd, wr \cup cp.wr, dirs \cup {dst}))

\* the end of move_file, for a move across devices: copy, then delete
move_by_copy(f1, src, dst, wr, dirs) ==
    IF ~is_file(f1, src) THEN ToolErr("crossdevice", f1, {}, wr, dirs)
    ELSE With(copy(f1, src, dst), LAMBDA cp :
         IF ~cp.ok THEN ToolErr("io", f1, {}, wr, dirs)
         ELSE With(remove_file(cp.fs, src), LAMBDA rm :
              IF ~rm.ok THEN ToolErr("io", cp.fs, cp.rd, wr \cup cp.wr, dirs \cup {dst})
              ELSE ToolOk(<<>>, rm.fs, cp.rd, wr \cup cp.wr \cup rm.wr, dirs \cup {src, dst})))

move_file(f, cfg, source, destination) ==
    With(validate_destructive(f, cfg, source), LAMBDA sv :
    IF ~sv.ok THEN ToolErr(sv.reason, f, {}, {}, {})
    ELSE With(validate_writable(f, cfg, destination), LAMBDA dv :
    IF ~dv.ok THEN ToolErr(dv.reason, f, {}, {}, {})
    ELSE LET src == sv.path
             dst == dv.path IN
         IF exists(f, dst) THEN ToolErr("exists", f, {}, {}, {})
         ELSE With(MissingDirs(f, Parent(dst)), LAMBDA dirs :
              With(create_dir_all(f, Parent(dst)), LAMBDA c :
              IF ~c.ok THEN ToolErr("io", f, {}, {}, {})
              ELSE With(rename(c.fs, src, dst), LAMBDA rn :
                   IF rn.ok
                   THEN ToolOk(<<>>, rn.fs, {}, c.wr \cup rn.wr, dirs \cup {src, dst})
                   ELSE move_by_copy(c.fs, src, dst, c.wr, dirs))))))

copy_file(f, cfg, source, destination) ==
    With(validate_path(f, cfg, source), LAMBDA sv :
    IF ~sv.ok THEN ToolErr(sv.reason, f, {}, {}, {})
    ELSE With(validate_writable(f, cfg, destination), LAMBDA dv :
    IF ~dv.ok THEN ToolErr(dv.reason, f, {}, {}, {})
    ELSE LET src == sv.path
             dst == dv.path IN
         IF ~is_file(f, src) THEN ToolErr("notfile", f, {}, {}, {})
         ELSE With(MissingDirs(f, Parent(dst)), LAMBDA dirs :
              With(create_dir_all(f, Parent(dst)), LAMBDA c :
              IF ~c.ok THEN ToolErr("io", f, {}, {}, {})
              ELSE With(copy(c.fs, src, dst), LAMBDA cp :
                   IF ~cp.ok THEN ToolErr("io", c.fs, {}, c.wr, dirs)
                   ELSE ToolOk(<<>>, cp.fs, cp.rd, c.wr \cup cp.wr, dirs \cup {dst}))))))

(***************************************************************************)
(* Archives (tools.rs, zip, walkdir).  An entry is a name and the file it  *)
(* holds.                                                                  *)
(***************************************************************************)
ZipEntry(name, node) == [name |-> name, node |-> node]

HasEntry(entries, name) == \E k \in 1..Len(entries) : entries[k].name = name

\* a set of paths as a sequence, in the order of the paths' lengths (the order
\* of a directory listing is the filesystem's; the model fixes one)
RECURSIVE InOrder(_)
InOrder(S) ==
    IF S = {} THEN <<>>
    ELSE CHOOSE r \in UNION { { <<x>> \o InOrder(T) : T \in {S \ {x}} } :
                              x \in {CHOOSE z \in S : \A y \in S : Len(z) <= Len(y)} } : TRUE

\* WalkDir::new(dir): the directory and everything below it, as paths below
\* dir; links to directories are listed and not entered
WalkDir(f, dir) ==
    LET rp == Real(f, dir).path IN
    InOrder({ Rebase(q, rp, dir) : q \in Subtree(f, rp) })

\* one file of a walked directory: start_file and write_all, unless the file
\* fails validation; a name can be taken once
ZipAddOne(f, cfg, src_path, entry_path, acc) ==
    IF ~is_file(f, entry_path) \/ ~validate_path(f, cfg, entry_path).ok THEN acc
    ELSE With(strip_prefix(entry_path, src_path), LAMBDA rel :
         LET name == IF rel.ok THEN rel.rel ELSE entry_path IN
         IF HasEntry(acc.entries, name) THEN [acc EXCEPT !.ok = FALSE, !.err = "zip"]
         ELSE With(read_node(f, entry_path), LAMBDA r :
              [acc EXCEPT !.entries = Append(@, ZipEntry(name, r.node)), !.rd = @ \cup r.rd]))

\* the loop over the walked directory
RECURSIVE ZipAdd(_, _, _, _, _)
ZipAdd(f, cfg, src_path, todo, acc) ==
    IF todo = <<>> \/ ~acc.ok THEN acc
    ELSE CHOOSE r \in { ZipAdd(f, cfg, src_path, Tail(todo), a) :
                        a \in {ZipAddOne(f, cfg, src_path, Head(todo), acc)} } : TRUE

\* one path of zip_files: a file, or a directory and the files below it
ZipPath(f, cfg, path_str, acc) ==
    With(validate_path(f, cfg, path_str), LAMBDA v :
    IF ~v.ok THEN [acc EXCEPT !.ok = FALSE, !.err = v.reason]
    ELSE LET src_path == v.path IN
         IF is_file(f, src_path)
         THEN IF HasEntry(acc.entries, FileName(src_path))
              THEN [acc EXCEPT !.ok = FALSE, !.err = "zip"]
              ELSE With(read_node(f, src_path), LAMBDA r :
                   [acc EXCEPT !.entries = Append(@, ZipEntry(FileName(src_path), r.node)),
                               !.rd = @ \cup r.rd])
         ELSE IF is_dir(f, src_path)
         THEN With(WalkDir(f, src_path), LAMBDA walker : ZipAdd(f, cfg, src_path, walker, acc))
         ELSE acc)

\* the loop of zip_files over its paths
RECURSIVE ZipPaths(_, _, _, _)
ZipPaths(f, cfg, paths, acc) ==
    IF paths = <<>> \/ ~acc.ok THEN acc
    ELSE CHOOSE r \in { ZipPaths(f, cfg, Tail(paths), a) :
                        a \in {ZipPath(f, cfg, Head(paths), acc)} } : TRUE

\* zip_files: the archive is created before the paths are looked at, and is
\* closed with the entries written so far when the call fails
zip_files(f, cfg, paths, output_path) ==
    IF paths = <<>> THEN ToolErr("empty", f, {}, {}, {})
    ELSE
    With(validate_writable(f, cfg, output_path), LAMBDA ov :
    IF ~ov.ok THEN ToolErr(ov.reason, f, {}, {}, {})
    ELSE LET out_path == ov.path IN
         With(MissingDirs(f, Parent(out_path)), LAMBDA dirs :
         With(create_dir_all(f, Parent(out_path)), LAMBDA c :
         IF ~c.ok THEN ToolErr("io", f, {}, {}, {})
         ELSE With(write_node(c.fs, out_path, ZipNode(<<>>)), LAMBDA w0 :
              IF ~w0.ok THEN ToolErr("io", c.fs, {}, c.wr, dirs)
              ELSE With(ZipPaths(w0.fs, cfg, paths,
                                 [ok |-> TRUE, err |-> "none", entries |-> <<>>, rd |-> {}]),
                        LAMBDA z :
                   With(write_node(w0.fs, out_path, ZipNode(z.entries)), LAMBDA w :
                   IF z.ok THEN ToolOk(<<>>, w.fs, z.rd, c.wr \cup w.wr, dirs \cup {out_path})
                   ELSE ToolErr(z.err, w.fs, z.rd, c.wr \cup w.wr, dirs \cup {out_path})))))))

\* "\" becomes "/"
RECURSIVE BackToSep(_)
BackToSep(name) ==
    IF name = <<>> THEN <<>>
    ELSE <<IF Head(name) = BSep THEN Sep ELSE Head(name)>> \o BackToSep(Tail(name))

\* ZipFile::mangled_name: the normal components of the name, as a relative
\* path; the root, "." and ".." are dropped
mangled_name(name) ==
    LET c == Components(BackToSep(name)) IN
    JoinWith(SelectSeq(c, LAMBDA x : x # DotDot), Sep)

\* ZipFile::is_dir
entry_is_dir(name) == name # <<>> /\ name[Len(name)] \in {Sep, BSep}

\* one entry of the archive: skipped when its path leaves the destination,
\* else a directory or a file is made for it
ExtractOne(dest_path, entry, acc) ==
    With(PathJoin(dest_path, mangled_name(entry.name)), LAMBDA out_path :
    IF ~PathStartsWith(out_path, dest_path) THEN acc
    ELSE IF entry_is_dir(entry.name)
    THEN With(create_dir_all(acc.fs, out_path), LAMBDA c :
         IF c.ok /\ c.wr # {}
         THEN [acc EXCEPT !.fs = c.fs, !.wr = @ \cup c.wr,
                          !.made = @ \cup MissingDirs(acc.fs, out_path)]
         ELSE acc)
    ELSE With(create_dir_all(acc.fs, Parent(out_path)), LAMBDA c :
         With(IF c.ok THEN MissingDirs(acc.fs, Parent(out_path)) ELSE {}, LAMBDA dirs :
         With(write_node(c.fs, out_path, entry.node), LAMBDA w :
         IF ~w.ok
         THEN [acc EXCEPT !.ok = FALSE, !.err = "io", !.fs = c.fs,
                          !.wr = @ \cup c.wr, !.made = @ \cup dirs]
         ELSE [acc EXCEPT !.fs = w.fs, !.wr = @ \cup c.wr \cup w.wr,
                          !.made = @ \cup dirs \cup {out_path}]))))

\* the loop of unzip_files over the entries; it ends at the first failure
RECURSIVE Extract(_, _, _)
Extract(dest_path, entries, acc) ==
    IF entries = <<>> \/ ~acc.ok THEN acc
    ELSE CHOOSE r \in { Extract(dest_path, Tail(entries), a) :
                        a \in {ExtractOne(dest_path, Head(entries), acc)} } : TRUE

unzip_files(f, cfg, archive_path, destination) ==
    With(validate_path(f, cfg, archive_path), LAMBDA av :
    IF ~av.ok THEN ToolErr(av.reason, f, {}, {}, {})
    ELSE With(validate_writable(f, cfg, destination), LAMBDA dv :
    IF ~dv.ok THEN ToolErr(dv.reason, f, {}, {}, {})
    ELSE LET dest_path == dv.path IN
         With(read_node(f, av.path), LAMBDA a :
         IF ~a.ok THEN ToolErr("io", f, {}, {}, {})
         ELSE IF ~a.node.zip THEN ToolErr("invalidzip", f, a.rd, {}, {})
         ELSE With(MissingDirs(f, dest_path), LAMBDA dirs :
              With(create_dir_all(f, dest_path), LAMBDA c :
              IF ~c.ok THEN ToolErr("io", f, a.rd, {}, {})
              ELSE With(Extract(dest_path, a.node.entries,
                                [ok |-> TRUE, err |-> "none", fs |-> c.fs,
                                 wr |-> c.wr, made |-> dirs]),
                        LAMBDA x :
                   IF x.ok THEN ToolOk(<<>>, x.fs, a.rd, x.wr, x.made)
                   ELSE ToolErr(x.err, x.fs, a.rd, x.wr, x.made)))))))

(***************************************************************************)
(* patch_file (tools.rs).  A search-and-replace operation is literal or a  *)
(* regular expression; the expressions of the model are made of literal    *)
(* characters and ".", and one holding "(" does not compile.               *)
(***************************************************************************)
SearchReplace(search, replace, regex, count) ==
    [search |-> search, replace |-> replace, regex |-> regex, count |-> count]
LineReplace(start_line, end_line, content) ==
    [start_line |-> start_line, end_line |-> end_line, content |-> content]

\* str::find: the position of the first occurrence from position i on, or 0
RECURSIVE Find(_, _, _)
Find(s, sub, i) ==
    IF i > Len(s) + 1 THEN 0
    ELSE IF StartsWith(From(s, i), sub) THEN i
    ELSE Find(s, sub, i + 1)

Min(a, b) == IF a < b THEN a ELSE b

\* the loop of a literal operation; with an empty search string and no limit
\* it does not end
LiteralDiverges(op) == op.search = <<>> /\ op.count = 0

RECURSIVE LiteralLoop(_, _, _, _)
LiteralLoop(op, remaining, new_content, count) ==
    LET pos == Find(remaining, op.search, 1) IN
    IF pos = 0 \/ (op.count > 0 /\ count >= op.count) THEN new_content \o remaining
    ELSE LiteralLoop(op, From(remaining, pos + Len(op.search)),
                     new_content \o SubSeq(remaining, 1, pos - 1) \o op.replace, count + 1)

Paren == "("
Dollar == "$"
NameChars == {"0", "1", "a", "b", "c", "n", "q", "s", "t", "w", "x", "z", "_"}

RegexCompiles(search) == ~Contains(search, <<Paren>>)

\* the expression matches the text at position i
RegexAt(search, text, i) ==
    /\ i + Len(search) - 1 <= Len(text)
    /\ \A k \in 1..Len(search) :
          IF search[k] = Dot THEN text[i + k - 1] # NL ELSE text[i + k - 1] = search[k]

\* the length of the run of name characters at the start of s
RECURSIVE NameRun(_)
NameRun(s) == IF s # <<>> /\ Head(s) \in NameChars THEN 1 + NameRun(Tail(s)) ELSE 0

\* Replacer for &str: "$$" is "$", "$0" is the match, a "$name" of no group is
\* empty, any other "$" stands for itself
RECURSIVE Expand(_, _)
Expand(replace, matched) ==
    IF replace = <<>> THEN <<>>
    ELSE IF Head(replace) # Dollar THEN <<Head(replace)>> \o Expand(Tail(replace), matched)
    ELSE LET rest == Tail(replace)
             n == NameRun(rest) IN
         IF rest # <<>> /\ Head(rest) = Dollar THEN <<Dollar>> \o Expand(Tail(rest), matched)
         ELSE IF n = 0 THEN <<Dollar>> \o Expand(rest, matched)
         ELSE (IF SubSeq(rest, 1, n) = <<"0">> THEN matched ELSE <<>>)
              \o Expand(From(rest, n + 1), matched)

\* Regex::replace_all over the leftmost matches that do not overlap; the
\* first `limit` matches are replaced by the replacement as it is written,
\* and without a limit every match by the expanded replacement
RECURSIVE RegexLoop(_, _, _, _)
RegexLoop(op, text, i, count) ==
    IF i > Len(text) + 1 THEN <<>>
    ELSE IF RegexAt(op.search, text, i)
    THEN LET matched == SubSeq(text, i, i + Len(op.search) - 1)
             put == IF op.count = 0 THEN Expand(op.replace, matched)
                    ELSE IF count < op.count THEN op.replace ELSE matched IN
         IF op.search = <<>>
         THEN put \o (IF i <= Len(text) THEN <<text[i]>> ELSE <<>>)
                  \o RegexLoop(op, text, i + 1, count + 1)
         ELSE put \o RegexLoop(op, text, i + Len(op.search), count + 1)
    ELSE (IF i <= Len(text) THEN <<text[i]>> ELSE <<>>) \o RegexLoop(op, text, i + 1, count)

\* the number of replacements the literal loop counts
RECURSIVE LiteralCount(_, _, _)
LiteralCount(op, remaining, count) ==
    LET pos == Find(remaining, op.search, 1) IN
    IF pos = 0 \/ (op.count > 0 /\ count >= op.count) THEN count
    ELSE LiteralCount(op, From(remaining, pos + Len(op.search)), count + 1)

\* the number of matches of the expression that do not overlap
RECURSIVE RegexMatches(_, _, _)
RegexMatches(op, text, i) ==
    IF i > Len(text) + 1 THEN 0
    ELSE IF RegexAt(op.search, text, i)
    THEN 1 + RegexMatches(op, text, IF op.search = <<>> THEN i + 1 ELSE i + Len(op.search))
    ELSE RegexMatches(op, text, i + 1)

\* the replacements an operation reports: count.min(limit) with a limit
RegexCount(op, text) ==
    IF op.count > 0 THEN Min(RegexMatches(op, text, 1), op.count)
    ELSE RegexMatches(op, text, 1)

\* a patch_file that counts an operation even when its term was not found
Replacements_counts_misses(ops, content) == [k \in 1..Len(ops) |-> 1]

\* the replacement counts of the summary, one for each operation
RECURSIVE Replacements(_, _)
Replacements(ops, content) ==
    IF ops = <<>> THEN <<>>
    ELSE LET op == Head(ops) IN
         IF op.regex
         THEN <<RegexCount(op, content)>>
                  \o Replacements(Tail(ops), RegexLoop(op, content, 1, 0))
         ELSE <<LiteralCount(op, content, 0)>>
                  \o Replacements(Tail(ops), LiteralLoop(op, content, <<>>, 0))

\* the search-and-replace operations, in order
RECURSIVE ApplySearchReplace(_, _)
ApplySearchReplace(ops, content) ==
    IF ops = <<>> THEN [ok |-> TRUE, err |-> "none", content |-> content]
    ELSE LET op == Head(ops) IN
         IF op.regex
         THEN IF ~RegexCompiles(op.search)
              THEN [ok |-> FALSE, err |-> "regex", content |-> content]
              ELSE ApplySearchReplace(Tail(ops), RegexLoop(op, content, 1, 0))
         ELSE IF LiteralDiverges(op)
              THEN [ok |-> FALSE, err |-> "diverges", content |-> content]
              ELSE ApplySearchReplace(Tail(ops), LiteralLoop(op, content, <<>>, 0))

\* sort_by start_line descending: a stable insertion sort
RECURSIVE InsertDesc(_, _)
InsertDesc(op, sorted) ==
    IF sorted = <<>> THEN <<op>>
    ELSE IF op.start_line > Head(sorted).start_line THEN <<op>> \o sorted
    ELSE <<Head(sorted)>> \o InsertDesc(op, Tail(sorted))

RECURSIVE SortDesc(_)
SortDesc(ops) ==
    IF ops = <<>> THEN <<>>
    ELSE InsertDesc(ops[Len(ops)], SortDesc(SubSeq(ops, 1, Len(ops) - 1)))

\* the line-range operations, from the last line upwards, on the list of lines
RECURSIVE ApplyLineReplace(_, _)
ApplyLineReplace(line_ops, lines) ==
    IF line_ops = <<>> THEN [ok |-> TRUE, lines |-> lines]
    ELSE LET op == Head(line_ops) IN
         IF op.start_line = 0 \/ op.end_line = 0 \/ op.start_line > op.end_line
         THEN [ok |-> FALSE, lines |-> lines]
         ELSE LET start == Min(op.start_line - 1, Len(lines))
                  end == Min(op.end_line, Len(lines)) IN
              ApplyLineReplace(Tail(line_ops),
                               SubSeq(lines, 1, start) \o Lines(op.content)
                                   \o SubSeq(lines, end + 1, Len(lines)))

patch_file(f, cfg, path, search_replace, line_replace) ==
    With(validate_writable(f, cfg, path), LAMBDA v :
    IF ~v.ok THEN ToolErr(v.reason, f, {}, {}, {})
    ELSE LET file_path == v.path IN
         IF ~is_file(f, file_path) THEN ToolErr("notfound", f, {}, {}, {})
         ELSE IF search_replace = <<>> /\ line_replace = <<>> THEN ToolErr("noops", f, {}, {}, {})
         ELSE With(read_node(f, file_path), LAMBDA r :
         IF r.node.zip THEN ToolErr("io", f, r.rd, {}, {})
         ELSE With(ApplySearchReplace(search_replace, r.node.data), LAMBDA sr :
         IF ~sr.ok THEN ToolErr(sr.err, f, r.rd, {}, {})
         ELSE With(ApplyLineReplace(SortDesc(line_replace), Lines(sr.content)), LAMBDA lr :
         IF ~lr.ok THEN ToolErr("linerange", f, r.rd, {}, {})
         ELSE LET joined == JoinWith(lr.lines, NL)
                  content == IF line_replace = <<>> THEN sr.content
                             ELSE IF EndsWith(joined, <<NL>>) THEN joined
                             ELSE joined \o <<NL>> IN
              With(write_node(f, file_path, FileNode(content)), LAMBDA w :
              IF ~w.ok THEN ToolErr("io", f, r.rd, {}, {})
              ELSE ToolOk([content |-> content,
                           replacements |-> Replacements(search_replace, r.node.data)],
                          w.fs, r.rd, w.wr, {file_path}))))))

(***************************************************************************)
(* Numbers and optional arguments.  usize has UsizeBits bits; a product    *)
(* that does not fit wraps in a release build and panics in a build with   *)
(* overflow checks.                                                        *)
(***************************************************************************)
RECURSIVE Pow2(_)
Pow2(n) == IF n = 0 THEN 1 ELSE 2 * Pow2(n - 1)

UsizeModulus == Pow2(UsizeBits)

None == [some |-> FALSE, val |-> 0]
Some(n) == [some |-> TRUE, val |-> n]
unwrap_or(o, d) == IF o.some THEN o.val ELSE d

Max(a, b) == IF a > b THEN a ELSE b
clamp(n, lo, hi) == Max(lo, Min(n, hi))
saturating_sub(a, b) == IF a >= b THEN a - b ELSE 0

\* a call that panicked: neither a result nor an error reaches the client
ToolPanic(f, rd) == ToolErr("panic", f, rd, {}, {})

(***************************************************************************)
(* read_lines (tools.rs).                                                  *)
(***************************************************************************)
\* the range (start, end) of lines[start..end], counted from 0, end excluded
LineRange(total_lines, start_line, end_line, tail) ==
    IF tail.some
    THEN LET n == Min(tail.val, total_lines) IN
         [start |-> saturating_sub(total_lines, n), end |-> total_lines]
    ELSE LET s == Min(Max(unwrap_or(start_line, 1), 1), total_lines + 1) - 1
             e == Min(unwrap_or(end_line, s + 100), total_lines) IN
         [start |-> s, end |-> e]

\* the numbered lines of all_lines[start..end]
Numbered(all_lines, start, end) ==
    [i \in 1..(end - start) |-> [no |-> start + i, line |-> all_lines[start + i]]]

read_lines(f, cfg, path, start_line, end_line, tail) ==
    With(validate_path(f, cfg, path), LAMBDA v :
    IF ~v.ok THEN ToolErr(v.reason, f, {}, {}, {})
    ELSE LET file_path == v.path IN
         IF ~exists(f, file_path) \/ ~is_file(f, file_path) THEN ToolErr("notfound", f, {}, {}, {})
         ELSE With(read_node(f, file_path), LAMBDA r :
         IF r.node.zip THEN ToolErr("io", f, r.rd, {}, {})
         ELSE LET all_lines == Lines(r.node.data)
                  total_lines == Len(all_lines)
                  range == LineRange(total_lines, start_line, end_line, tail) IN
              \* all_lines[start..end] panics when start > end
              IF range.start > range.end THEN ToolPanic(f, r.rd)
              ELSE ToolOk([total |-> total_lines, start |-> range.start, end |-> range.end,
                           lines |-> Numbered(all_lines, range.start, range.end)],
                          f, r.rd, {}, {})))

(***************************************************************************)
(* list_directory (tools.rs).                                              *)
(***************************************************************************)
\* the characters of the model's names in the order of their codes
Ascii ==
    << ".", "/", "0", "1", "A", "B", "\\", "_", "a", "b", "c", "d", "e", "f", "h", "k",
       "n", "o", "q", "r", "s", "t", "u", "w", "x", "y", "z" >>

CharCode(c) == IF \E k \in 1..Len(Ascii) : Ascii[k] = c
               THEN CHOOSE k \in 1..Len(Ascii) : Ascii[k] = c
               ELSE 0

to_lowercase(s) ==
    [k \in 1..Len(s) |-> IF s[k] = "A" THEN "a" ELSE IF s[k] = "B" THEN "b" ELSE s[k]]

\* Ord for str: a < b
RECURSIVE StrLess(_, _)
StrLess(a, b) ==
    IF b = <<>> THEN FALSE
    ELSE IF a = <<>> THEN TRUE
    ELSE IF Head(a) = Head(b) THEN StrLess(Tail(a), Tail(b))
    ELSE CharCode(Head(a)) < CharCode(Head(b))

\* the comparison of entries.sort_by: directories first, then the names in
\* lower case
EntryLess(a, b) ==
    IF a.is_dir /\ ~b.is_dir THEN TRUE
    ELSE IF ~a.is_dir /\ b.is_dir THEN FALSE
    ELSE StrLess(to_lowercase(a.name), to_lowercase(b.name))

\* sort_by, a stable sort: an insertion sort that puts an entry behind the
\* entries that are not greater
RECURSIVE InsertEntry(_, _)
InsertEntry(e, sorted) ==
    IF sorted = <<>> THEN <<e>>
    ELSE IF EntryLess(e, Head(sorted)) THEN <<e>> \o sorted
    ELSE <<Head(sorted)>> \o InsertEntry(e, Tail(sorted))

RECURSIVE SortEntries(_)
SortEntries(es) ==
    IF es = <<>> THEN <<>>
    ELSE CHOOSE r \in { InsertEntry(es[Len(es)], s) :
                        s \in {SortEntries(SubSeq(es, 1, Len(es) - 1))} } : TRUE

\* the elements of a sequence that satisfy a test, in order
RECURSIVE SelectEntries(_, _, _)
SelectEntries(f, cfg, paths) ==
    IF paths = <<>> THEN <<>>
    ELSE LET path == Head(paths)
             name == FileName(path)
             dir == is_dir(f, path)
             keep == (dir \/ is_supported_extension(name)) /\ validate_path(f, cfg, path).ok
             node == f[RealNoFollow(f, path).path]
             \* DirEntry::metadata does not follow a link
             size == IF dir THEN 0
                     ELSE IF node.kind = "link" THEN Len(node.target) ELSE Len(node.data) IN
         CHOOSE r \in { (IF keep THEN <<[name |-> name, is_dir |-> dir, size |-> size,
                                         path |-> path]>> ELSE <<>>) \o rest :
                        rest \in {SelectEntries(f, cfg, Tail(paths))} } : TRUE

\* fs::read_dir: the entries of a directory as paths below dir_path
read_dir(f, dir_path) ==
    LET rp == Real(f, dir_path).path IN
    InOrder({ Rebase(q, rp, dir_path) : q \in Children(f, rp) })

\* iter.skip(n).take(k)
SkipTake(s, n, k) == SubSeq(s, n + 1, Min(n + k, Len(s)))

\* (page - 1) * page_size in usize
StartIdx(page, page_size) ==
    LET product == (page - 1) * page_size IN
    [overflow |-> product >= UsizeModulus, idx |-> product % UsizeModulus]

\* (total_items + page_size - 1) / page_size
PageCount(total_items, page_size) == (total_items + page_size - 1) \div page_size

\* the pagination both listings share
Paginate(f, rd, entries, page_arg, page_size, overflow_checks) ==
    LET total_items == Len(entries)
        page == Max(page_arg, 1)
        start == StartIdx(page, page_size) IN
    IF start.overflow /\ overflow_checks THEN ToolPanic(f, rd)
    ELSE IF start.idx >= total_items /\ total_items > 0
    THEN ToolOk([kind |-> "out_of_range", page |-> page, total |-> total_items,
                 pages |-> PageCount(total_items, page_size), entries |-> <<>>],
                f, rd, {}, {})
    ELSE ToolOk([kind |-> "page", page |-> page, total |-> total_items,
                 pages |-> PageCount(total_items, page_size),
                 entries |-> SkipTake(entries, start.idx, page_size)],
                f, rd, {}, {})

ListDirectoryParams(path, page, page_size, recursive, max_depth) ==
    [path |-> path, page |-> page, page_size |-> page_size, recursive |-> recursive,
     max_depth |-> max_depth]

\* the number of components of path below dir
Depth(path, dir) == Len(Components(path)) - Len(Components(dir))

\* the order of WalkDir with sort_by_file_name: a directory before what it
\* holds, the entries of one directory by name
RECURSIVE CompsLess(_, _)
CompsLess(a, b) ==
    IF b = <<>> THEN FALSE
    ELSE IF a = <<>> THEN TRUE
    ELSE IF Head(a) = Head(b) THEN CompsLess(Tail(a), Tail(b))
    ELSE StrLess(Head(a), Head(b))

RECURSIVE WalkSorted(_)
WalkSorted(S) ==
    IF S = {} THEN <<>>
    ELSE CHOOSE r \in UNION { { <<x>> \o WalkSorted(T) : T \in {S \ {x}} } :
             x \in {CHOOSE z \in S :
                      \A y \in S \ {z} : CompsLess(Components(z), Components(y))} } : TRUE

list_directory_recursive(f, cfg, dir_path, args, overflow_checks) ==
    LET max_depth == clamp(args.max_depth, 1, 10)
        rp == Real(f, dir_path).path
        walked == { Rebase(q, rp, dir_path) : q \in Subtree(f, rp) \ {rp} } IN
    With(WalkSorted({ p \in walked : Depth(p, dir_path) <= max_depth }), LAMBDA paths :
    With(SelectEntries(f, cfg, paths), LAMBDA entries :
    Paginate(f, {rp}, entries, args.page, clamp(args.page_size, 1, 200), overflow_checks)))

list_directory(f, cfg, args, overflow_checks) ==
    With(validate_path(f, cfg, args.path), LAMBDA v :
    IF ~v.ok THEN ToolErr(v.reason, f, {}, {}, {})
    ELSE LET dir_path == v.path IN
         IF ~is_dir(f, dir_path) THEN ToolErr("notdir", f, {}, {}, {})
         ELSE IF args.recursive
         THEN list_directory_recursive(f, cfg, dir_path, args, overflow_checks)
         ELSE With(SortEntries(SelectEntries(f, cfg, read_dir(f, dir_path))), LAMBDA entries :
              Paginate(f, {Real(f, dir_path).path}, entries, args.page,
                       clamp(args.page_size, 1, 100), overflow_checks)))

(***************************************************************************)
(* search_files (tools.rs, glob::glob).                                    *)
(***************************************************************************)
\* the non-empty pieces of a pattern between separators
PatternComponents(pattern) == SelectSeq(SplitOn(pattern, Sep), LAMBDA c : c # <<>>)

\* one component of a pattern against one name
ComponentMatches(pc, name) ==
    LET pat == Pattern_new(pc) IN pat.ok /\ matches(pat.tokens, name)

\* glob::glob walks the directories component by component: * and ? stay
\* within one name, ** stands for any number of directories
RECURSIVE GlobMatch(_, _)
GlobMatch(pcomps, fcomps) ==
    IF pcomps = <<>> THEN fcomps = <<>>
    ELSE IF Head(pcomps) = <<Star, Star>>
    THEN \/ GlobMatch(Tail(pcomps), fcomps)
         \/ fcomps # <<>> /\ GlobMatch(pcomps, Tail(fcomps))
    ELSE /\ fcomps # <<>>
         /\ ComponentMatches(Head(pcomps), Head(fcomps))
         /\ GlobMatch(Tail(pcomps), Tail(fcomps))

\* the paths glob::glob yields: the existing paths that match; a pattern that
\* does not compile yields an error and no path.  A pattern with ".." only
\* yields paths with ".." in them, which validate_path denies: none are kept
glob(f, pattern) ==
    IF ~Pattern_new(pattern).ok \/ (\E k \in 1..Len(SplitOn(pattern, Sep)) : SplitOn(pattern, Sep)[k] = DotDot) THEN <<>>
    ELSE InOrder({ q \in DOMAIN f : q # Root /\ GlobMatch(PatternComponents(pattern), Components(q)) })

\* the files among paths that validate_path accepts
RECURSIVE KeepValidFiles(_, _, _)
KeepValidFiles(f, cfg, paths) ==
    IF paths = <<>> THEN <<>>
    ELSE CHOOSE r \in { (IF is_file(f, Head(paths)) /\ validate_path(f, cfg, Head(paths)).ok
                         THEN <<Head(paths)>> ELSE <<>>) \o rest :
                        rest \in {KeepValidFiles(f, cfg, Tail(paths))} } : TRUE

\* the loop over the folders of the configuration
RECURSIVE SearchFolders(_, _, _, _, _)
SearchFolders(f, cfg, pattern_str, root_path, i) ==
    IF i > Len(cfg.folders) THEN <<>>
    ELSE LET folder == cfg.folders[i]
             skipped == \/ ~folder.enabled
                        \/ /\ root_path.some
                           /\ ~StartsWith(folder.path, root_path.val)
                           /\ ~StartsWith(root_path.val, folder.path)
             glob_pattern == IF Contains(pattern_str, <<Sep>>) \/ Contains(pattern_str, <<BSep>>)
                             THEN folder.path \o <<Sep>> \o pattern_str
                             ELSE folder.path \o <<Sep, Star, Star, Sep>> \o pattern_str IN
         CHOOSE r \in { (IF skipped THEN <<>> ELSE KeepValidFiles(f, cfg, glob(f, glob_pattern)))
                            \o rest :
                        rest \in {SearchFolders(f, cfg, pattern_str, root_path, i + 1)} } : TRUE

\* the line "... and N more results"
MoreResults(n) == <<"more", n>>

search_files(f, cfg, pattern, root_path) ==
    With(SearchFolders(f, cfg, Trim(pattern), root_path, 1), LAMBDA results :
    ToolOk(IF Len(results) > 100
           THEN Append(SubSeq(results, 1, 100), MoreResults(Len(results) - 100))
           ELSE results,
           f, { Real(f, results[k]).path : k \in 1..Len(results) }, {}, {}))

(***************************************************************************)
(* grep_content (tools.rs).                                                *)
(***************************************************************************)
\* Regex::is_match of the expression the arguments build
LineMatches(pattern, is_regex, case_insensitive, line) ==
    LET p == IF case_insensitive THEN to_lowercase(pattern) ELSE pattern
        l == IF case_insensitive THEN to_lowercase(line) ELSE line IN
    IF is_regex THEN \E i \in 1..(Len(l) + 1) : RegexAt(p, l, i) ELSE Contains(l, p)

\* the matching lines of one file, numbered
GrepFile(path, lines, pattern, is_regex, case_insensitive) ==
    LET hits == { n \in 1..Len(lines) : LineMatches(pattern, is_regex, case_insensitive, lines[n]) } IN
    [k \in 1..Cardinality(hits) |->
        LET n == CHOOSE m \in hits : Cardinality({ h \in hits : h < m }) = k - 1 IN
        [path |-> path, line_num |-> n, line |-> lines[n]]]

GrepContentParams(pattern, root_path, is_regex, case_insensitive, max_results, include_extensions) ==
    [pattern |-> pattern, root_path |-> root_path, is_regex |-> is_regex,
     case_insensitive |-> case_insensitive, max_results |-> max_results,
     include_extensions |-> include_extensions]

\* a walked file is searched when it passes the filters
GrepSearched(f, cfg, args, path) ==
    LET filename == FileName(path) IN
    /\ is_file(f, path)
    /\ is_supported_extension(filename) /\ ~is_binary_file(filename)
    /\ args.include_extensions.some
          => \E k \in 1..Len(args.include_extensions.val) :
                to_lowercase(args.include_extensions.val[k]) = to_lowercase(Extension(filename).ext)
    /\ validate_path(f, cfg, path).ok
    /\ Len(f[Real(f, path).path].data) <= cfg.max_file_size_mb * MiB

RECURSIVE GrepWalk(_, _, _, _)
GrepWalk(f, cfg, args, paths) ==
    IF paths = <<>> THEN <<>>
    ELSE LET path == Head(paths) IN
         CHOOSE r \in { (IF GrepSearched(f, cfg, args, path)
                         THEN GrepFile(path, Lines(f[Real(f, path).path].data), args.pattern,
                                       args.is_regex, args.case_insensitive)
                         ELSE <<>>) \o rest :
                        rest \in {GrepWalk(f, cfg, args, Tail(paths))} } : TRUE

grep_content(f, cfg, args) ==
    With(validate_path(f, cfg, args.root_path), LAMBDA v :
    IF ~v.ok THEN ToolErr(v.reason, f, {}, {}, {})
    ELSE LET root == v.path
             max_results == IF args.max_results = 0 THEN 50 ELSE Min(args.max_results, 200) IN
         IF ~is_dir(f, root) THEN ToolErr("notdir", f, {}, {}, {})
         ELSE IF args.is_regex /\ ~RegexCompiles(args.pattern) THEN ToolErr("regex", f, {}, {}, {})
         ELSE With(GrepWalk(f, cfg, args, WalkDir(f, root)), LAMBDA results :
              LET kept == SubSeq(results, 1, Min(Len(results), max_results)) IN
              ToolOk(kept, f, { Real(f, kept[k].path).path : k \in 1..Len(kept) }, {}, {})))

(***************************************************************************)
(* get_file_info (tools.rs).                                               *)
(***************************************************************************)
get_file_info(f, cfg, path) ==
    With(validate_path(f, cfg, path), LAMBDA v :
    IF ~v.ok THEN ToolErr(v.reason, f, {}, {}, {})
    ELSE LET target == v.path IN
         IF ~exists(f, target) THEN ToolErr("notfound", f, {}, {}, {})
         ELSE LET rp == Real(f, target).path
                  node == f[rp] IN
              ToolOk([type |-> IF node.kind = "file" THEN "file" ELSE "directory",
                      size |-> Len(node.data),
                      permission |-> cfg.folders[v.folder].permission,
                      children |-> IF node.kind = "dir" THEN Cardinality(Children(f, rp)) ELSE 0],
                     f, {rp}, {}, {}))

(***************************************************************************)
(* batch_read (tools.rs).                                                  *)
(***************************************************************************)
\* max_total_size_mb, a float, as the fraction num / den; the cast of
\* max_total_size_mb * 1024 * 1024 to u64 truncates
MaxBytes(max_total_size_mb) == (max_total_size_mb.num * MiB) \div max_total_size_mb.den

BatchResult(path, status, content) == [path |-> path, status |-> status, content |-> content]

\* the loop over the paths: the results so far, the bytes read and the files
RECURSIVE BatchLoop(_, _, _, _, _)
BatchLoop(f, cfg, paths, max_bytes, acc) ==
    IF paths = <<>> THEN acc
    ELSE LET path_str == Head(paths)
             v == validate_path(f, cfg, path_str)
             file_path == v.path
             filename == FileName(file_path)
             node == f[Real(f, file_path).path]
             step ==
                 IF ~v.ok THEN [acc EXCEPT !.results = Append(@, BatchResult(path_str, "error", <<>>))]
                 ELSE IF ~is_file(f, file_path)
                 THEN [acc EXCEPT !.results = Append(@, BatchResult(path_str, "notfile", <<>>))]
                 ELSE IF acc.total_bytes + Len(node.data) > max_bytes
                 THEN [acc EXCEPT !.results = Append(@, BatchResult(path_str, "skipped", <<>>))]
                 ELSE IF is_binary_file(filename)
                 THEN [acc EXCEPT !.results = Append(@, BatchResult(path_str, "binary", <<>>))]
                 ELSE IF node.zip
                 THEN [acc EXCEPT !.results = Append(@, BatchResult(path_str, "error", <<>>))]
                 ELSE [results |-> Append(acc.results, BatchResult(path_str, "content", node.data)),
                       total_bytes |-> acc.total_bytes + Len(node.data),
                       rd |-> acc.rd \cup {Real(f, file_path).path}] IN
         CHOOSE r \in { BatchLoop(f, cfg, Tail(paths), max_bytes, a) : a \in {step} } : TRUE

batch_read(f, cfg, paths, max_total_size_mb) ==
    IF paths = <<>> THEN ToolErr("empty", f, {}, {}, {})
    ELSE IF Len(paths) > 50 THEN ToolErr("toomany", f, {}, {}, {})
    ELSE With(BatchLoop(f, cfg, paths, MaxBytes(max_total_size_mb),
                        [results |-> <<>>, total_bytes |-> 0, rd |-> {}]), LAMBDA b :
         ToolOk([results |-> b.results, total_bytes |-> b.total_bytes], f, b.rd, {}, {}))

(***************************************************************************)
(* The machine the server runs on.                                         *)
(*   /s        a shared folder, with a sub-directory d, directories n and  *)
(*             b that exclusion rules name, and a link k leading out       *)
(*   /r        a second shared folder                                      *)
(*   /o        a directory no folder covers                                *)
(*   /j        a link to /s                                                *)
(***************************************************************************)
P_s == <<"/", "s">>
P_r == <<"/", "r">>
P_o == <<"/", "o">>
P_j == <<"/", "j">>
P_m == <<"/", "m">>
P_sd == P_s \o <<"/", "d">>
P_sn == P_s \o <<"/", "n">>
P_sb == P_s \o <<"/", "b">>
P_sk == P_s \o <<"/", "k">>
P_sdn == P_sd \o <<"/", "n">>
A_c == <<"a", ".", "c">>

\* a text with one line
Text(line) == line \o <<NL>>

BaseFs ==
    (Root :> DirNode) @@ (P_s :> DirNode) @@ (P_r :> DirNode) @@ (P_o :> DirNode)
    @@ (P_sd :> DirNode) @@ (P_sn :> DirNode) @@ (P_sb :> DirNode)
    @@ (P_sdn :> DirNode)
    @@ (P_sk :> LinkNode(P_o)) @@ (P_j :> LinkNode(P_s))
    @@ (Child(P_s, A_c) :> FileNode(Text(<<"s">>)))
    @@ (Child(P_sd, A_c) :> FileNode(Text(<<"d">>)))
    @@ (Child(P_sn, A_c) :> FileNode(Text(<<"n">>)))
    @@ (Child(P_sb, A_c) :> FileNode(Text(<<"b">>)))
    @@ (Child(P_r, A_c) :> FileNode(Text(<<"r">>)))
    @@ (Child(P_o, A_c) :> FileNode(Text(<<"o">>)))

\* the filesystem with a .mcpignore of the given text at a folder root
WithIgnore(f, root, text) == (Child(root, IgnoreName) :> FileNode(text)) @@ f

\* .mcpignore texts: a bare name, a directory rule, a comment and a blank
\* line, a rule with a path, a padded name, a pattern
IgnoreTexts ==
    { Text(<<"n">>),
      Text(<<"b", "/">>),
      Text(<<"#", "n">>) \o <<NL>>,
      Text(<<"d", "/", "n">>),
      Text(<<" ", "n", " ">>) \o Text(<<"#">>),
      Text(<<"*", ".", "c">>) }

\* the configurations of the model
Configs ==
    { AppConfig(<<SharedFolder(P_s, ReadWrite, TRUE)>>),
      AppConfig(<<SharedFolder(P_s, ReadWrite, FALSE)>>),
      AppConfig(<<SharedFolder(P_s, ReadWrite, TRUE), SharedFolder(P_r, ReadOnly, TRUE)>>),
      AppConfig(<<SharedFolder(P_sd, ReadWrite, TRUE), SharedFolder(P_s, ReadOnly, TRUE)>>),
      AppConfig(<<SharedFolder(P_s, ReadOnly, TRUE), SharedFolder(P_sd, ReadWrite, TRUE)>>),
      AppConfig(<<SharedFolder(P_m, ReadWrite, TRUE), SharedFolder(P_j, ReadWrite, TRUE)>>),
      AppConfig(<<SharedFolder(P_o, ReadWrite, FALSE), SharedFolder(P_sd, ReadWrite, TRUE)>>) }

NoCall == [tool |-> "none"]

(***************************************************************************)
(* SpecV: validate_path as a function.  The filesystem, the configuration  *)
(* and the .mcpignore texts are drawn at the start; one step applies       *)
(* validate_path to a path.                                                *)
(***************************************************************************)
PathChars == {Sep, BSep, Dot, "n", "b", "x"}

\* all strings over PathChars of length up to n
Suffixes(n) == UNION { [1..k -> PathChars] : k \in 0..n }

ProbeBases == { <<>>, P_s, P_sd, P_sn, P_sb, P_sdn, P_sk, P_j, P_o, P_r }

\* longer paths the claims speak of
ProbeExtra ==
    { P_sd \o <<"/", "n", "/", "x", "/", "x">>,
      P_s \o <<"/", "x", ".", ".", "x">>,
      P_sb \o <<"/", "x", "/", "x">>,
      P_sd \o <<"/", "/", "n">>,
      P_sd \o <<"/", ".", "/", "n">>,
      <<"d", "/", "n">> }

ProbePaths == { b \o x : b \in ProbeBases, x \in Suffixes(MaxSuffix) } \cup ProbeExtra

InitV ==
    /\ \E t1 \in IgnoreTexts \cup {<<>>}, t2 \in {<<>>, Text(<<"x">>)} :
         fs = LET f1 == IF t1 = <<>> THEN BaseFs ELSE WithIgnore(BaseFs, P_s, t1) IN
              IF t2 = <<>> THEN f1 ELSE WithIgnore(f1, P_sd, t2)
    /\ config \in Configs
    /\ call = NoCall
    /\ journal = <<>>
    /\ pairings = <<>>
    /\ cmd = <<>>
    /\ hist = <<>>
    /\ ncalls = 0
    /\ srv = <<>>

Validate(p) ==
    /\ call = NoCall
    /\ call' = [tool |-> "validate_path", path |-> p, res |-> validate_path(fs, config, p)]
    /\ UNCHANGED <<fs, config, journal, pairings, cmd, hist, ncalls, srv>>

NextV == \E p \in ProbePaths : Validate(p)

SpecV == InitV /\ [][NextV]_vars

(***************************************************************************)
(* Spec: the tools, called one after the other on one filesystem.  /s      *)
(* holds a .mcpignore that excludes n, and an archive z with an entry for  *)
(* the destination itself, entries named to leave it ("..", an absolute    *)
(* name), and entries for the directories d, n and k of /s.                *)
(***************************************************************************)
Z_txt == FileNode(Text(<<"z">>))
E_c == <<"e", ".", "c">>

ArchiveEntries ==
    << ZipEntry(E_c, Z_txt),
       ZipEntry(<<".", ".", "/", "u", ".", "c">>, Z_txt),
       ZipEntry(P_o \o <<"/">> \o E_c, Z_txt),
       ZipEntry(<<"d", "/">> \o E_c, Z_txt),
       ZipEntry(<<"n", "/">> \o E_c, Z_txt),
       ZipEntry(<<"k", "/">> \o E_c, Z_txt) >>

P_z == Child(P_s, <<"z">>)
P_y == Child(P_s, <<"y">>)
P_sx == Child(P_s, <<"x">>)

ToolFs == (P_z :> ZipNode(ArchiveEntries)) @@ WithIgnore(BaseFs, P_s, Text(<<"n">>))

ToolConfigs ==
    { AppConfig(<<SharedFolder(P_s, ReadWrite, TRUE), SharedFolder(P_r, ReadOnly, TRUE)>>),
      AppConfig(<<SharedFolder(P_sd, ReadOnly, TRUE), SharedFolder(P_s, ReadWrite, TRUE),
                  SharedFolder(P_o, ReadWrite, FALSE)>>) }

\* the paths the calls name: files of the two folders, an excluded one, one
\* behind the link k, one outside, new ones, a directory, the archive
ToolPaths ==
    { Child(P_s, A_c), Child(P_sd, A_c), Child(P_sn, A_c), Child(P_sk, A_c),
      Child(P_r, A_c), Child(P_o, A_c), Child(P_sx, A_c), P_y, P_sdn, P_z }

\* where a move or a copy leads: a new file, a file that exists, the read-only
\* folder, behind the link k
ToolDestinations ==
    { Child(P_sx, A_c), P_y, Child(P_s, A_c), Child(P_r, A_c), Child(P_sk, <<"y">>) }

ToolContents == { Text(<<"w">>) }

ZipInputs ==
    { <<>>, <<Child(P_s, A_c)>>, <<P_sd>>, <<Child(P_s, A_c), Child(P_o, A_c)>>,
      <<P_sk, Child(P_sn, A_c)>> }

ZipOutputs == { P_y, Child(P_r, <<"y">>) }
UnzipArchives == { P_z, Child(P_s, A_c) }
UnzipDestinations == { P_s, P_sd, P_sx, P_r }

PatchInputs ==
    { [sr |-> <<>>, lr |-> <<>>],
      [sr |-> <<SearchReplace(<<"s">>, <<"t">>, FALSE, 0)>>, lr |-> <<>>],
      [sr |-> <<SearchReplace(<<>>, <<"t">>, FALSE, 0)>>, lr |-> <<>>],
      [sr |-> <<SearchReplace(<<".">>, <<"$", "0", "q">>, TRUE, 1)>>, lr |-> <<>>],
      [sr |-> <<>>, lr |-> <<LineReplace(1, 1, <<"q">>)>>] }

Init ==
    /\ fs = ToolFs
    /\ config \in ToolConfigs
    /\ call = NoCall
    /\ journal = <<>>
    /\ pairings = <<>>
    /\ cmd = <<>>
    /\ hist = <<>>
    /\ ncalls = 0
    /\ srv = <<>>

\* a tool that writes its journal entry whether it succeeds or fails
Call_logs_every_call(tool, category, path, path2, logged, r) ==
    /\ ncalls' = ncalls + 1
    /\ fs' = r.fs
    /\ call' = [tool |-> tool, path |-> path, path2 |-> path2, ok |-> r.ok, err |-> r.err,
                out |-> r.out, rd |-> r.rd, wr |-> r.wr, made |-> r.made,
                changed |-> r.fs # fs]
    /\ journal' = log_activity(journal, tool, category, logged)
    /\ UNCHANGED <<config, pairings, cmd, hist, srv>>

\* the end of a call of a tool: its effect on the filesystem, and on success
\* the journal entry of success_log
Call(tool, category, path, path2, logged, r) ==
    /\ ncalls' = ncalls + 1
    /\ fs' = r.fs
    /\ call' = [tool |-> tool, path |-> path, path2 |-> path2, ok |-> r.ok, err |-> r.err,
                out |-> r.out, rd |-> r.rd, wr |-> r.wr, made |-> r.made,
                changed |-> r.fs # fs]
    /\ journal' = IF r.ok THEN log_activity(journal, tool, category, logged) ELSE journal
    /\ UNCHANGED <<config, pairings, cmd, hist, srv>>

ReadFile(p) ==
    /\ ncalls < MaxCalls
    /\ \E r \in {read_file(fs, config, p)} :
          Call("read_file", "read", p, <<>>, p, r)

WriteFile(p, content) ==
    /\ ncalls < MaxCalls
    /\ \E r \in {write_file(fs, config, p, content)} :
          Call("write_file", "write", p, <<>>, p, r)

DeleteFile(p) ==
    /\ ncalls < MaxCalls
    /\ \E r \in {delete_file(fs, config, p)} :
          Call("delete_file", "delete", p, <<>>, p, r)

MoveFile(src, dst) ==
    /\ ncalls < MaxCalls
    /\ \E r \in {move_file(fs, config, src, dst)} :
          Call("move_file", "delete", src, dst, src, r)

CopyFile(src, dst) ==
    /\ ncalls < MaxCalls
    /\ \E r \in {copy_file(fs, config, src, dst)} :
          Call("copy_file", "write", src, dst, dst, r)

ZipFiles(paths, out) ==
    /\ ncalls < MaxCalls
    /\ \E r \in {zip_files(fs, config, paths, out)} :
          Call("zip_files", "write", out, <<>>, out, r)

UnzipFiles(archive, dst) ==
    /\ ncalls < MaxCalls
    /\ \E r \in {unzip_files(fs, config, archive, dst)} :
          Call("unzip_files", "write", archive, dst, dst, r)

PatchFile(p, ops) ==
    /\ ncalls < MaxCalls
    /\ \E r \in {patch_file(fs, config, p, ops.sr, ops.lr)} :
          Call("patch_file", "write", p, <<>>, p, r)

Next ==
    \/ \E p \in ToolPaths : ReadFile(p)
    \/ \E p \in ToolPaths, c \in ToolContents : WriteFile(p, c)
    \/ \E p \in ToolPaths : DeleteFile(p)
    \/ \E src \in ToolPaths, dst \in ToolDestinations : MoveFile(src, dst)
    \/ \E src \in ToolPaths, dst \in ToolDestinations : CopyFile(src, dst)
    \/ \E ps \in ZipInputs, out \in ZipOutputs : ZipFiles(ps, out)
    \/ \E a \in UnzipArchives, d \in UnzipDestinations : UnzipFiles(a, d)
    \/ \E p \in ToolPaths, ops \in PatchInputs : PatchFile(p, ops)

Spec == Init /\ [][Next]_vars

(***************************************************************************)
(* SpecNet: the network listener (bin/mcp_server/sse.rs) and the commands  *)
(* of the control surface that approve and revoke origins                  *)
(* (commands/sse.rs), which run in another process, one at a time.  Both   *)
(* sides share the pairings file.  fs::write is two system calls: the      *)
(* file is opened, which empties it, and then written.  The user edits     *)
(* the .mcpignore of /s while the server runs.                             *)
(***************************************************************************)
O1 == <<"o", "1">>
O2 == <<"o", "2">>
\* an origin with a character that is not visible ASCII
O_u == <<"o", "u">>

Origins == {O1, O2}
VisibleAscii == {O1, O2}

\* the pairings file: absent, or its content
NoFile == [exists |-> FALSE, content |-> <<>>]
FileOf(content) == [exists |-> TRUE, content |-> content]

PairingConfig(approved_origins) == [approved_origins |-> approved_origins]

\* serde_json::to_string_pretty and from_str of a PairingConfig: the empty
\* text of a file just opened for writing does not parse
to_string_pretty(cfg) == <<"json", cfg.approved_origins>>
from_str(content) ==
    IF Len(content) = 2 /\ content[1] = "json"
    THEN [ok |-> TRUE, config |-> PairingConfig(content[2])]
    ELSE [ok |-> FALSE, config |-> PairingConfig(<<>>)]

SeqContains(q, x) == \E k \in 1..Len(q) : q[k] = x

is_origin_approved(file, origin) ==
    /\ file.exists
    /\ from_str(file.content).ok
    /\ SeqContains(from_str(file.content).config.approved_origins, origin)

\* a request's Origin header
NoOrigin == [present |-> FALSE, value |-> <<>>]
OriginHeader(value) == [present |-> TRUE, value |-> value]
Headers == {NoOrigin, OriginHeader(O1), OriginHeader(O2), OriginHeader(O_u)}

\* HeaderValue::to_str: fails on a value that is not visible ASCII
HeaderValue_to_str(h) ==
    IF h.present /\ h.value \in VisibleAscii THEN [some |-> TRUE, str |-> h.value]
    ELSE [some |-> FALSE, str |-> <<>>]

\* pairing_middleware: the verdict on a request
pairing_middleware(file, h) ==
    LET origin == HeaderValue_to_str(h) IN
    IF origin.some /\ ~is_origin_approved(file, origin.str) THEN "forbidden" ELSE "passed"

\* the origins the file approves
ApprovedSet(file) ==
    IF file.exists /\ from_str(file.content).ok
    THEN { from_str(file.content).config.approved_origins[k] :
             k \in 1..Len(from_str(file.content).config.approved_origins) }
    ELSE {}

NoCmd == [op |-> "none"]
NetConfig == AppConfig(<<SharedFolder(P_s, ReadWrite, TRUE)>>)
IgnoreEdits == { Text(<<"n">>), Text(<<"x">>) }
NetPaths == { P_sn, P_sx, P_sd }

\* requests and validations of one run
MaxRequests == 2

InitNet ==
    /\ fs = ToolFs
    /\ config = NetConfig
    /\ call = NoCall
    /\ journal = <<>>
    /\ pairings \in {NoFile, FileOf(to_string_pretty(PairingConfig(<<>>)))}
    /\ cmd = NoCmd
    /\ hist = [o \in Origins |-> "none"]
    /\ ncalls = 0
    /\ srv = <<>>

\* the entries of category security
RECURSIVE SecurityEntries(_)
SecurityEntries(j) ==
    IF j = <<>> THEN 0
    ELSE (IF Head(j).category = "security" THEN 1 ELSE 0) + SecurityEntries(Tail(j))

\* a request arrives at the listener; the record of the call also keeps what
\* the file approved, what the last completed command on the origin was and
\* the origin of a command under way, all at that moment
Request(h) ==
    /\ ncalls < MaxRequests
    /\ ncalls' = ncalls + 1
    /\ \E verdict \in {pairing_middleware(pairings, h)} :
          /\ journal' = IF verdict = "forbidden"
                        THEN log_activity(journal, "system", "security", <<>>)
                        ELSE journal
          /\ call' = [tool |-> "request", header |-> h, status |-> verdict,
                      approved |-> ApprovedSet(pairings),
                      settled |-> IF h.value \in Origins THEN hist[h.value] ELSE "none",
                      busy |-> IF cmd = NoCmd THEN <<>> ELSE cmd.origin,
                      logged |-> SecurityEntries(journal') - SecurityEntries(journal)]
    /\ UNCHANGED <<fs, config, pairings, cmd, hist, srv>>

\* approve_origin, up to the call of fs::write
ApproveOrigin(o) ==
    /\ cmd = NoCmd
    /\ \/ ~pairings.exists \/ from_str(pairings.content).ok
    /\ LET approved_origins == IF pairings.exists
                               THEN from_str(pairings.content).config.approved_origins
                               ELSE <<>> IN
       IF SeqContains(approved_origins, o)
       THEN /\ hist' = [hist EXCEPT ![o] = "approved"]
            /\ UNCHANGED cmd
       ELSE /\ cmd' = [op |-> "approve_origin", origin |-> o, pc |-> "open",
                       json |-> to_string_pretty(PairingConfig(Append(approved_origins, o)))]
            /\ UNCHANGED hist
    /\ UNCHANGED <<fs, config, call, journal, pairings, ncalls, srv>>

\* revoke_origin, up to the call of fs::write; without a file it is done
RevokeOrigin(o) ==
    /\ cmd = NoCmd
    /\ \/ ~pairings.exists \/ from_str(pairings.content).ok
    /\ IF ~pairings.exists
       THEN /\ hist' = [hist EXCEPT ![o] = "revoked"]
            /\ UNCHANGED cmd
       ELSE /\ cmd' = [op |-> "revoke_origin", origin |-> o, pc |-> "open",
                       json |-> to_string_pretty(PairingConfig(
                                   SelectSeq(from_str(pairings.content).config.approved_origins,
                                             LAMBDA x : x # o)))]
            /\ UNCHANGED hist
    /\ UNCHANGED <<fs, config, call, journal, pairings, ncalls, srv>>

\* fs::write, first system call: the file is created or emptied
WriteOpen ==
    /\ cmd # NoCmd /\ cmd.pc = "open"
    /\ pairings' = FileOf(<<>>)
    /\ cmd' = [cmd EXCEPT !.pc = "write"]
    /\ UNCHANGED <<fs, config, call, journal, hist, ncalls, srv>>

\* fs::write, second system call: the content; the command returns Ok
WriteAll ==
    /\ cmd # NoCmd /\ cmd.pc = "write"
    /\ pairings' = FileOf(cmd.json)
    /\ hist' = [hist EXCEPT ![cmd.origin] =
                   IF cmd.op = "approve_origin" THEN "approved" ELSE "revoked"]
    /\ cmd' = NoCmd
    /\ UNCHANGED <<fs, config, call, journal, ncalls, srv>>

\* the user rewrites the .mcpignore of /s
EditIgnore(text) ==
    /\ fs' = WithIgnore(fs, P_s, text)
    /\ UNCHANGED <<config, call, journal, pairings, cmd, hist, ncalls, srv>>

\* a tool validates a path; rules is the .mcpignore of /s at that moment
ValidateNow(p) ==
    /\ ncalls < MaxRequests
    /\ ncalls' = ncalls + 1
    /\ call' = [tool |-> "validate_path", path |-> p, res |-> validate_path(fs, config, p),
                rules |-> fs[Child(P_s, IgnoreName)].data]
    /\ UNCHANGED <<fs, config, journal, pairings, cmd, hist, srv>>

NextNet ==
    \/ \E h \in Headers : Request(h)
    \/ \E o \in Origins : ApproveOrigin(o)
    \/ \E o \in Origins : RevokeOrigin(o)
    \/ WriteOpen
    \/ WriteAll
    \/ \E t \in IgnoreEdits : EditIgnore(t)
    \/ \E p \in NetPaths : ValidateNow(p)

SpecNet == InitNet /\ [][NextNet]_vars

(***************************************************************************)
(* SpecAll: the fourteen tools called in sequence.  The tools of Spec are  *)
(* joined by the six that only read: list_directory (with its recursive    *)
(* form), search_files, grep_content, read_lines, get_file_info and        *)
(* batch_read.                                                             *)
(***************************************************************************)
ListInputs ==
    { ListDirectoryParams(P_s, 1, 50, FALSE, 3),
      ListDirectoryParams(P_s, 2, 50, FALSE, 3),
      ListDirectoryParams(P_s, 1, 50, TRUE, 3),
      ListDirectoryParams(P_s, 9, 1, TRUE, 1),
      ListDirectoryParams(Child(P_s, A_c), 1, 50, FALSE, 3),
      ListDirectoryParams(P_o, 1, 50, FALSE, 3) }

SearchInputs ==
    { [pattern |-> <<Star, ".", "c">>, root_path |-> None],
      [pattern |-> <<"d", Sep, Star>>, root_path |-> Some(P_s)] }

GrepInputs ==
    { GrepContentParams(<<"s">>, P_s, FALSE, FALSE, 50, None),
      GrepContentParams(<<Paren>>, P_s, TRUE, FALSE, 50, None),
      GrepContentParams(<<"s">>, Child(P_s, A_c), FALSE, FALSE, 50, None) }

ReadLinesInputs ==
    { [path |-> Child(P_s, A_c), start_line |-> None, end_line |-> None, tail |-> None],
      [path |-> Child(P_s, A_c), start_line |-> Some(2), end_line |-> Some(0), tail |-> None],
      [path |-> Child(P_o, A_c), start_line |-> None, end_line |-> None, tail |-> None] }

InfoInputs == { Child(P_s, A_c), P_sx, P_o }

BatchInputs ==
    { [paths |-> <<>>, max_total_size_mb |-> [num |-> 5, den |-> 1]],
      [paths |-> <<Child(P_s, A_c), Child(P_o, A_c)>>, max_total_size_mb |-> [num |-> 5, den |-> 1]] }

ListDirectory(args, overflow_checks) ==
    /\ ncalls < MaxCalls
    /\ \E r \in {list_directory(fs, config, args, overflow_checks)} :
          Call(IF r.ok /\ args.recursive THEN "list_directory_recursive" ELSE "list_directory",
               "read", args.path, <<>>, args.path, r)

SearchFiles(args) ==
    /\ ncalls < MaxCalls
    /\ \E r \in {search_files(fs, config, args.pattern, args.root_path)} :
          Call("search_files", "read", args.pattern, <<>>, args.pattern, r)

GrepContent(args) ==
    /\ ncalls < MaxCalls
    /\ \E r \in {grep_content(fs, config, args)} :
          Call("grep_content", "read", args.root_path, <<>>, args.root_path, r)

ReadLines(args) ==
    /\ ncalls < MaxCalls
    /\ \E r \in {read_lines(fs, config, args.path, args.start_line, args.end_line, args.tail)} :
          Call("read_lines", "read", args.path, <<>>, args.path, r)

GetFileInfo(p) ==
    /\ ncalls < MaxCalls
    /\ \E r \in {get_file_info(fs, config, p)} :
          Call("get_file_info", "read", p, <<>>, p, r)

BatchRead(args) ==
    /\ ncalls < MaxCalls
    /\ \E r \in {batch_read(fs, config, args.paths, args.max_total_size_mb)} :
          Call("batch_read", "read", <<>>, <<>>, <<"n", SP, "p">>, r)

NextQuery ==
    \/ \E args \in ListInputs, c \in BOOLEAN : ListDirectory(args, c)
    \/ \E args \in SearchInputs : SearchFiles(args)
    \/ \E args \in GrepInputs : GrepContent(args)
    \/ \E args \in ReadLinesInputs : ReadLines(args)
    \/ \E p \in InfoInputs : GetFileInfo(p)
    \/ \E args \in BatchInputs : BatchRead(args)

NextAll == Next \/ NextQuery

SpecAll == Init /\ [][NextAll]_vars

(***************************************************************************)
(* SpecReload: the server process (main.rs).  The directory of the config  *)
(* file is watched; the watcher's callback sends every create or modify    *)
(* event into a channel of capacity one with blocking_send; the reload     *)
(* task receives, sleeps, loads the file and assigns the new config under  *)
(* the write guard.  Every tool takes the read guard first and drops it    *)
(* when it returns.  The lock is tokio's RwLock: a reader that arrives     *)
(* while a writer waits queues behind the writer.                          *)
(***************************************************************************)
\* external writes of the config file in one run
MaxWrites == 2
\* events the watcher's thread has still to hand over; equal events that
\* follow one another are merged by the notification queue
MaxPending == 2
\* tool calls that can be in progress at once
Tasks == 1..2

\* serde_json::to_string_pretty of an AppConfig, as write_shared_config
\* writes it
write_shared_config(cfg) == FileOf(<<"json", cfg.folders, cfg.max_file_size_mb>>)

\* a reload task that assigns the configuration without the write guard
WriteLock_ignores_readers ==
    /\ srv.pc = "write"
    /\ srv' = [srv EXCEPT !.pc = "assign"]
    /\ UNCHANGED <<fs, config, call, journal, pairings, cmd, hist, ncalls>>

\* a lock that lets readers in while a writer waits
ReadLock_ignores_waiting_writer(t) ==
    /\ srv.tasks[t].pc = "idle"
    /\ srv.pc # "assign"
    /\ srv' = [srv EXCEPT !.tasks[t].pc = "validate"]
    /\ UNCHANGED <<fs, config, call, journal, pairings, cmd, hist, ncalls>>

\* a load_config that takes the folders of a file that is cut short
load_config_reads_partial(file) ==
    IF file.exists /\ Len(file.content) >= 2 /\ file.content[1] = "json"
    THEN [folders |-> file.content[2],
          max_file_size_mb |-> IF Len(file.content) = 3 THEN file.content[3]
                               ELSE DefaultMaxFileSizeMb]
    ELSE AppConfig(<<>>)

\* load_config: the default configuration when the file is missing or does
\* not parse
load_config(file) ==
    IF file.exists /\ Len(file.content) = 3 /\ file.content[1] = "json"
    THEN [folders |-> file.content[2], max_file_size_mb |-> file.content[3]]
    ELSE AppConfig(<<>>)

\* the configurations the desktop application writes
ReloadConfigs ==
    { AppConfig(<<SharedFolder(P_s, ReadWrite, TRUE)>>),
      [folders |-> <<SharedFolder(P_r, ReadOnly, TRUE)>>, max_file_size_mb |-> 1] }

\* a task that runs no tool
IdleTask == [pc |-> "idle", folders |-> <<>>, limit |-> 0]

\* main has loaded the config, started the watcher and the reload task, and
\* log_connect has appended to the journal, which lies in the watched
\* directory; the file may have been rewritten since it was loaded
InitReload ==
    /\ fs = ToolFs
    /\ \E c0 \in ReloadConfigs, c1 \in ReloadConfigs :
          /\ config = load_config(write_shared_config(c0))
          /\ srv = [file |-> write_shared_config(c1), events |-> 1, chan |-> 0,
                    pc |-> "recv", new_config |-> AppConfig(<<>>),
                    tasks |-> [t \in Tasks |-> IdleTask]]
    /\ call = NoCall
    /\ journal = <<>>
    /\ pairings = <<>>
    /\ cmd = <<>>
    /\ hist = <<>>
    /\ ncalls = 0

\* the watcher sees a create or modify event in the directory
Notify(s) == [s EXCEPT !.events = Min(@ + 1, MaxPending)]

\* fs::write of the config file, first system call: the file is emptied
WriteConfigOpen ==
    /\ ncalls < MaxWrites
    /\ ncalls' = ncalls + 1
    /\ srv' = Notify([srv EXCEPT !.file = FileOf(<<>>)])
    /\ UNCHANGED <<fs, config, call, journal, pairings, cmd, hist>>

\* fs::write of the config file, second system call: the content
WriteConfigAll(cfg) ==
    /\ ncalls < MaxWrites
    /\ ncalls' = ncalls + 1
    /\ srv' = Notify([srv EXCEPT !.file = write_shared_config(cfg)])
    /\ UNCHANGED <<fs, config, call, journal, pairings, cmd, hist>>

\* the watcher's callback: blocking_send waits while the channel is full
SendEvent ==
    /\ srv.events > 0
    /\ srv.chan = 0
    /\ srv' = [srv EXCEPT !.events = @ - 1, !.chan = 1]
    /\ UNCHANGED <<fs, config, call, journal, pairings, cmd, hist, ncalls>>

\* the reload task: rx.recv()
Recv ==
    /\ srv.pc = "recv"
    /\ srv.chan = 1
    /\ srv' = [srv EXCEPT !.chan = 0, !.pc = "sleep"]
    /\ UNCHANGED <<fs, config, call, journal, pairings, cmd, hist, ncalls>>

\* the reload task: the sleep is over, load_config reads the file
LoadConfig ==
    /\ srv.pc = "sleep"
    /\ srv' = [srv EXCEPT !.new_config = load_config(srv.file), !.pc = "write"]
    /\ UNCHANGED <<fs, config, call, journal, pairings, cmd, hist, ncalls>>

\* the tasks that hold a read guard
Readers == { t \in Tasks : srv.tasks[t].pc # "idle" }

\* the reload task: write().await returns when no read guard is held
WriteLock ==
    /\ srv.pc = "write"
    /\ Readers = {}
    /\ srv' = [srv EXCEPT !.pc = "assign"]
    /\ UNCHANGED <<fs, config, call, journal, pairings, cmd, hist, ncalls>>

\* the reload task: *config = new_config, and the write guard is dropped
Assign ==
    /\ srv.pc = "assign"
    /\ config' = srv.new_config
    /\ srv' = [srv EXCEPT !.pc = "recv"]
    /\ UNCHANGED <<fs, call, journal, pairings, cmd, hist, ncalls>>

\* a tool call starts: config.read().await returns when no writer holds the
\* lock or waits for it
ReadLock(t) ==
    /\ srv.tasks[t].pc = "idle"
    /\ srv.pc \notin {"write", "assign"}
    /\ srv' = [srv EXCEPT !.tasks[t].pc = "validate"]
    /\ UNCHANGED <<fs, config, call, journal, pairings, cmd, hist, ncalls>>

\* the call validates its path against the folders of the configuration
ValidatePath(t) ==
    /\ srv.tasks[t].pc = "validate"
    /\ srv' = [srv EXCEPT !.tasks[t].pc = "operate", !.tasks[t].folders = config.folders]
    /\ UNCHANGED <<fs, config, call, journal, pairings, cmd, hist, ncalls>>

\* the call compares a size with the limit of the configuration and does its
\* last file operation
Operate(t) ==
    /\ srv.tasks[t].pc = "operate"
    /\ srv' = [srv EXCEPT !.tasks[t].pc = "return",
                          !.tasks[t].limit = config.max_file_size_mb]
    /\ UNCHANGED <<fs, config, call, journal, pairings, cmd, hist, ncalls>>

\* the call returns and drops the read guard; a success has appended to the
\* journal, in the watched directory
Return(t, ok) ==
    /\ srv.tasks[t].pc = "return"
    /\ call' = [tool |-> "tool_call", ok |-> ok, folders |-> srv.tasks[t].folders,
                limit |-> srv.tasks[t].limit, config |-> config]
    /\ srv' = With([srv EXCEPT !.tasks[t] = IdleTask], LAMBDA s :
                   IF ok THEN Notify(s) ELSE s)
    /\ UNCHANGED <<fs, config, journal, pairings, cmd, hist, ncalls>>

NextReload ==
    \/ WriteConfigOpen
    \/ \E cfg \in ReloadConfigs : WriteConfigAll(cfg)
    \/ SendEvent
    \/ Recv
    \/ LoadConfig
    \/ WriteLock
    \/ Assign
    \/ \E t \in Tasks : ReadLock(t)
    \/ \E t \in Tasks : ValidatePath(t)
    \/ \E t \in Tasks : Operate(t)
    \/ \E t \in Tasks, ok \in BOOLEAN : Return(t, ok)

SpecReload == InitReload /\ [][NextReload]_vars

\* the threads and tasks of the process are scheduled, and a call in progress
\* comes to its end; nothing obliges a client to call or the file to change
FairReload ==
    /\ SpecReload
    /\ WF_vars(SendEvent)
    /\ WF_vars(Recv)
    /\ WF_vars(LoadConfig)
    /\ WF_vars(WriteLock)
    /\ WF_vars(Assign)
    /\ \A t \in Tasks : WF_vars(ValidatePath(t))
    /\ \A t \in Tasks : WF_vars(Operate(t))
    /\ \A t \in Tasks : WF_vars(\E ok \in BOOLEAN : Return(t, ok))

(***************************************************************************)
(* SpecLines: read_lines as a function.  The text of /s/a.c and the line   *)
(* arguments are drawn at the start; one step applies read_lines.          *)
(***************************************************************************)
\* the largest line argument drawn
MaxLineArg == 4

LineTexts ==
    { <<>>, <<"a", NL>>, <<"a", NL, "b">>, <<"a", NL, "b", NL>>,
      <<"a", NL, "b", NL, "c", NL>> }

LineArgs == {None} \cup { Some(n) : n \in 0..MaxLineArg }

LinesConfig == AppConfig(<<SharedFolder(P_s, ReadWrite, TRUE)>>)

InitLines ==
    /\ \E text \in LineTexts : fs = (Child(P_s, A_c) :> FileNode(text)) @@ BaseFs
    /\ config = LinesConfig
    /\ call = NoCall
    /\ journal = <<>>
    /\ pairings = <<>>
    /\ cmd = <<>>
    /\ \E s \in LineArgs, e \in LineArgs, t \in LineArgs :
          hist = [path |-> Child(P_s, A_c), start_line |-> s, end_line |-> e, tail |-> t]
    /\ ncalls = 0
    /\ srv = <<>>

NextLines == call = NoCall /\ ReadLines(hist)

SpecLines == InitLines /\ [][NextLines]_vars

(***************************************************************************)
(* SpecPatch: patch_file as a function.  The text of /s/a.c and the        *)
(* operations are drawn at the start; one step applies patch_file.         *)
(***************************************************************************)
PatchTexts ==
    { <<>>, <<"a", NL, "b">>, <<"a", NL, "b", NL>>, <<"a", NL, "b", NL, "c", NL>> }

PatchSearchOps ==
    { <<>>,
      <<SearchReplace(<<"x">>, <<"t">>, FALSE, 0)>>,
      <<SearchReplace(<<"x">>, <<"t">>, FALSE, 2), SearchReplace(<<"x", ".">>, <<"t">>, TRUE, 0),
        SearchReplace(<<"c", "a">>, <<"t">>, TRUE, 1)>>,
      <<SearchReplace(<<"a">>, <<"t">>, FALSE, 0)>>,
      <<SearchReplace(<<"a">>, <<"$", "0", "q">>, TRUE, 0)>>,
      <<SearchReplace(<<"x">>, <<"t">>, FALSE, 0), SearchReplace(<<Paren>>, <<"t">>, TRUE, 0)>> }

PatchLineOps ==
    { <<>>,
      <<LineReplace(1, 1, <<"q">>)>>,
      <<LineReplace(1, 1, <<"q", NL, "w">>), LineReplace(3, 3, <<"r">>)>>,
      <<LineReplace(3, 3, <<"r">>), LineReplace(1, 1, <<"q", NL, "w">>)>>,
      <<LineReplace(3, 3, <<"r">>), LineReplace(4, 5, <<"q">>)>>,
      <<LineReplace(4, 5, <<"q">>), LineReplace(3, 3, <<"r">>)>>,
      <<LineReplace(2, 3, <<"r">>), LineReplace(4, 5, <<"q">>)>>,
      <<LineReplace(0, 1, <<"q">>)>>,
      <<LineReplace(1, 0, <<"q">>)>>,
      <<LineReplace(1, 1, <<"q">>), LineReplace(3, 2, <<"r">>)>> }

InitPatch ==
    /\ \E text \in PatchTexts, sr \in PatchSearchOps, lr \in PatchLineOps :
          /\ fs = (Child(P_s, A_c) :> FileNode(text)) @@ BaseFs
          /\ hist = [text |-> text, sr |-> sr, lr |-> lr]
    /\ config = LinesConfig
    /\ call = NoCall
    /\ journal = <<>>
    /\ pairings = <<>>
    /\ cmd = <<>>
    /\ ncalls = 0
    /\ srv = <<>>

NextPatch == call = NoCall /\ PatchFile(Child(P_s, A_c), hist)

SpecPatch == InitPatch /\ [][NextPatch]_vars

(***************************************************************************)
(* SpecList: list_directory as a function.  The files of /s and the        *)
(* arguments are drawn at the start; one step applies list_directory, in a *)
(* build with or without overflow checks.                                  *)
(***************************************************************************)
\* a page whose index, taken times two, is UsizeModulus
HugePage == UsizeModulus \div 2 + 1

ListFileNames == { A_c, <<"B", ".", "c">>, <<"A", ".", "c">> }
ListPages == { 0, 1, 2, 3, HugePage }
ListPageSizes == { 0, 1, 2, 3, 101 }

RECURSIVE WithFiles(_, _)
WithFiles(f, names) ==
    IF names = {} THEN f
    ELSE LET n == CHOOSE x \in names : TRUE IN
         (Child(P_s, n) :> FileNode(Text(<<"w">>))) @@ WithFiles(f, names \ {n})

InitList ==
    /\ \E names \in SUBSET ListFileNames : fs = WithFiles(BaseFs, names)
    /\ \E path \in {P_s, P_sb}, page \in ListPages, page_size \in ListPageSizes :
          hist = ListDirectoryParams(path, page, page_size, FALSE, 3)
    /\ config = LinesConfig
    /\ call = NoCall
    /\ journal = <<>>
    /\ pairings = <<>>
    /\ cmd = <<>>
    /\ ncalls = 0
    /\ srv = <<>>

NextList == call = NoCall /\ \E overflow_checks \in BOOLEAN : ListDirectory(hist, overflow_checks)

SpecList == InitList /\ [][NextList]_vars

(***************************************************************************)
(* SpecRT: write_file followed by read_file.  The configuration, the path  *)
(* and the content are drawn at the start; the first step writes, the      *)
(* second, after a successful write, reads the same path.                  *)
(***************************************************************************)
RTConfigs ==
    { [folders |-> <<SharedFolder(P_s, ReadWrite, TRUE), SharedFolder(P_r, ReadOnly, TRUE)>>,
       max_file_size_mb |-> mb] : mb \in {0, 1, DefaultMaxFileSizeMb} }

\* a file that exists, one in a directory to be created two levels down, one
\* behind the link k, one in the read-only folder, one of no known type
RTPaths ==
    { Child(P_s, A_c), Child(Child(P_sx, <<"q">>), A_c), Child(P_sk, A_c),
      Child(P_r, A_c), P_y }

RTContents ==
    { <<>>, Text(<<"w">>), <<"a", NL, "b">>, <<BSep, "t", NL, NL>>, <<"s">> }

InitRT ==
    /\ fs = ToolFs
    /\ config \in RTConfigs
    /\ \E p \in RTPaths, c \in RTContents : hist = [path |-> p, content |-> c]
    /\ call = NoCall
    /\ journal = <<>>
    /\ pairings = <<>>
    /\ cmd = <<>>
    /\ ncalls = 0
    /\ srv = <<>>

NextRT ==
    \/ call = NoCall /\ WriteFile(hist.path, hist.content)
    \/ call.tool = "write_file" /\ call.ok /\ ReadFile(hist.path)

SpecRT == InitRT /\ [][NextRT]_vars

(***************************************************************************)
(* One call of move_file (tools.rs 581-635) on the filesystem ToolFs, the  *)
(* source and the destination drawn at the start.                          *)
(***************************************************************************)
\* a file, a directory with a subtree, a directory, a file behind the link k
\* (on another device), an excluded file, a missing one, a read-only one
MoveSources ==
    { Child(P_s, A_c), P_sd, P_sdn, Child(P_sk, A_c), Child(P_sn, A_c),
      Child(P_sx, A_c), Child(P_r, A_c) }

\* a new name, a file that exists, a name behind the link k, one inside the
\* directory d, one two directories down, one in the read-only folder
MoveDestinations ==
    { P_y, Child(P_s, A_c), Child(P_sk, <<"y">>), Child(Child(P_sd, <<"x">>), <<"y">>),
      Child(Child(P_sx, <<"q">>), <<"y">>), Child(P_r, <<"y">>), Child(P_sd, A_c) }

InitMove ==
    /\ fs = ToolFs
    /\ config \in ToolConfigs
    /\ \E s \in MoveSources, d \in MoveDestinations : hist = [source |-> s, destination |-> d]
    /\ call = NoCall
    /\ journal = <<>>
    /\ pairings = <<>>
    /\ cmd = <<>>
    /\ ncalls = 0
    /\ srv = <<>>

NextMove == call = NoCall /\ MoveFile(hist.source, hist.destination)

SpecMove == InitMove /\ [][NextMove]_vars

(***************************************************************************)
(* One call of batch_read (tools.rs 776-842), the paths and the budget     *)
(* drawn at the start.  The file /s/d/a.c holds three bytes, the others    *)
(* two.                                                                    *)
(***************************************************************************)
MaxBatchPaths == 3

BatchFs == (Child(P_sd, A_c) :> FileNode(<<"d", "d", "d">>)) @@ ToolFs

\* a file of two bytes, one of three, an excluded file, one outside the
\* folders, a directory, a missing file
BatchPaths ==
    { Child(P_s, A_c), Child(P_sd, A_c), Child(P_sn, A_c), Child(P_o, A_c), P_sd,
      Child(P_sx, A_c) }

\* budgets of no byte, of two bytes and of the default 5 MB
BatchBudgets == { [num |-> 0, den |-> 1], [num |-> 2, den |-> MiB], [num |-> 5, den |-> 1] }

InitBatch ==
    /\ fs = BatchFs
    /\ config \in ToolConfigs
    /\ \E n \in 1..MaxBatchPaths : \E ps \in [1..n -> BatchPaths], b \in BatchBudgets :
          hist = [paths |-> ps, max_total_size_mb |-> b]
    /\ call = NoCall
    /\ journal = <<>>
    /\ pairings = <<>>
    /\ cmd = <<>>
    /\ ncalls = 0
    /\ srv = <<>>

NextBatch == call = NoCall /\ BatchRead(hist)

SpecBatch == InitBatch /\ [][NextBatch]_vars

(***************************************************************************)
(* One call of zip_files (tools.rs 849-938), the input paths and the       *)
(* output path drawn at the start.                                         *)
(***************************************************************************)
MaxZipPaths == 2

\* a file, a directory, an excluded file, a file outside the folders, a
\* missing file, a file of the read-only folder
ZipSources ==
    { Child(P_s, A_c), P_sd, Child(P_sn, A_c), Child(P_o, A_c), Child(P_sx, A_c),
      Child(P_r, A_c) }

\* a new file, a file that exists, one two missing directories down, one in
\* the read-only folder
ZipTargets ==
    { P_y, Child(P_sb, A_c), Child(Child(P_sx, <<"q">>), <<"y">>), Child(P_r, <<"y">>) }

InitZip ==
    /\ fs = ToolFs
    /\ config \in ToolConfigs
    /\ \E n \in 1..MaxZipPaths : \E ps \in [1..n -> ZipSources], o \in ZipTargets :
          hist = [paths |-> ps, output_path |-> o]
    /\ call = NoCall
    /\ journal = <<>>
    /\ pairings = <<>>
    /\ cmd = <<>>
    /\ ncalls = 0
    /\ srv = <<>>

NextZip == call = NoCall /\ ZipFiles(hist.paths, hist.output_path)

SpecZip == InitZip /\ [][NextZip]_vars

(***************************************************************************)
(* One call of search_files (tools.rs 373-422), the pattern and the        *)
(* root_path drawn at the start.                                           *)
(***************************************************************************)
\* every file of type c, one name, patterns with a directory, every name, the
\* archive
SearchPatterns ==
    { <<Star, ".", "c">>, A_c, <<"d", Sep, Star>>, <<Star>>, <<Star, Star, Sep, "a", ".", "c">>,
      <<"z">> }

\* no root_path, a folder, directories inside a folder, the read-only folder,
\* a directory outside the folders
SearchRoots == { None, Some(P_s), Some(P_sd), Some(P_sb), Some(P_r), Some(P_o) }

InitSearch ==
    /\ fs = ToolFs
    /\ config \in ToolConfigs
    /\ \E p \in SearchPatterns, r \in SearchRoots : hist = [pattern |-> p, root_path |-> r]
    /\ call = NoCall
    /\ journal = <<>>
    /\ pairings = <<>>
    /\ cmd = <<>>
    /\ ncalls = 0
    /\ srv = <<>>

NextSearch == call = NoCall /\ SearchFiles(hist)

SpecSearch == InitSearch /\ [][NextSearch]_vars

(***************************************************************************)
(* The journal under a sequence of appends (activity.rs 65-117): each step *)
(* is one log_activity, of an entry of two, four or eight bytes.           *)
(***************************************************************************)
MaxAppends == 6

\* the paths of the entries: a line is its path and its line end
JournalPaths == { <<"a">>, <<"a", ".", "c">>, <<"/", "s", "/", "a", ".", "c", "c">> }

\* the size of the longest line
MaxLineBytes == CHOOSE n \in { Len(p) + 1 : p \in JournalPaths } : \A p \in JournalPaths : Len(p) + 1 <= n

InitJournal ==
    /\ fs = ToolFs
    /\ config \in ToolConfigs
    /\ hist = [before |-> <<>>]
    /\ call = NoCall
    /\ journal = <<>>
    /\ pairings = <<>>
    /\ cmd = <<>>
    /\ ncalls = 0
    /\ srv = <<>>

\* try_log_activity, under LOG_MUTEX: rotation when due, then one line
LogActivity(tool, category, path) ==
    /\ ncalls < MaxAppends
    /\ ncalls' = ncalls + 1
    /\ journal' = log_activity(journal, tool, category, path)
    /\ hist' = [before |-> journal]
    /\ UNCHANGED <<fs, config, call, pairings, cmd, srv>>

NextJournal == \E p \in JournalPaths : LogActivity("read_file", "read", p)

SpecJournal == InitJournal /\ [][NextJournal]_vars

(***************************************************************************)
(* Sequences of the seven mutating tools and read_file on a folder with    *)
(* excluded files: the rule of /s/.mcpignore is the name n or the path     *)
(* d/n, and /s/d/n holds a file.                                           *)
(***************************************************************************)
P_ignore == Child(P_s, IgnoreName)
P_sdna == Child(P_sdn, A_c)

WidenFs(text) == (P_sdna :> FileNode(Text(<<"e">>))) @@ WithIgnore(ToolFs, P_s, text)

\* the rule file, the excluded files, the directory above one of them, an
\* open file, and where the excluded file is after a move of d to y
WidenPaths ==
    { P_ignore, Child(P_sn, A_c), P_sdna, P_sd, Child(P_s, A_c), Child(Child(P_y, <<"n">>), A_c) }

WidenDestinations == { P_y, P_ignore }

WidenPatches ==
    { [sr |-> <<SearchReplace(<<"n">>, <<"t">>, FALSE, 0)>>, lr |-> <<>>],
      [sr |-> <<>>, lr |-> <<LineReplace(1, 1, <<"q">>)>>] }

InitWiden ==
    /\ \E text \in { Text(<<"n">>), Text(<<"d", "/", "n">>) } :
          /\ fs = WidenFs(text)
          /\ hist = [before |-> WidenFs(text)]
    /\ config \in ToolConfigs
    /\ call = NoCall
    /\ journal = <<>>
    /\ pairings = <<>>
    /\ cmd = <<>>
    /\ ncalls = 0
    /\ srv = <<>>

NextWiden ==
    \/ \E p \in WidenPaths : ReadFile(p)
    \/ \E p \in WidenPaths, c \in ToolContents : WriteFile(p, c)
    \/ \E p \in WidenPaths : DeleteFile(p)
    \/ \E src \in WidenPaths, dst \in WidenDestinations : MoveFile(src, dst)
    \/ \E src \in WidenPaths, dst \in WidenDestinations : CopyFile(src, dst)
    \/ \E ps \in { <<P_s>>, <<P_sd>> } : ZipFiles(ps, P_y)
    \/ UnzipFiles(P_z, P_s)
    \/ \E p \in { P_ignore, Child(P_s, A_c) }, ops \in WidenPatches : PatchFile(p, ops)

SpecWiden == InitWiden /\ [][NextWiden]_vars

(***************************************************************************)
(* The config file and the configuration loaded from it (config.rs 54-74,  *)
(* main.rs 75, 97-108): the file is missing, empty (just opened for        *)
(* writing), cut short, of another content, or as the application wrote    *)
(* it; the server loads it at its start and at every reload, and validates *)
(* paths under what it loaded.                                             *)
(***************************************************************************)
LoadFiles ==
    { NoFile, FileOf(<<>>), FileOf(<<"x">>) }
    \cup { FileOf(SubSeq(write_shared_config(c).content, 1, 2)) : c \in ReloadConfigs }
    \cup { write_shared_config(c) : c \in ReloadConfigs }

LoadPaths == { Child(P_s, A_c), Child(P_r, A_c), Child(P_o, A_c), P_s }

InitLoad ==
    /\ fs = ToolFs
    /\ \E f0 \in LoadFiles :
          /\ srv = [file |-> f0]
          /\ config = load_config(f0)
          /\ hist = [loaded |-> f0]
    /\ call = NoCall
    /\ journal = <<>>
    /\ pairings = <<>>
    /\ cmd = <<>>
    /\ ncalls = 0

\* the file is written, cut or removed from outside
ChangeConfigFile(f) ==
    /\ ncalls < MaxWrites
    /\ ncalls' = ncalls + 1
    /\ srv' = [srv EXCEPT !.file = f]
    /\ UNCHANGED <<fs, config, call, journal, pairings, cmd, hist>>

\* a reload: load_config, and the assignment to the shared configuration
ReloadConfig ==
    /\ config' = load_config(srv.file)
    /\ hist' = [loaded |-> srv.file]
    /\ UNCHANGED <<fs, call, journal, pairings, cmd, ncalls, srv>>

\* a tool call validates its path under the configuration
ValidateLoaded(p) ==
    /\ call' = [tool |-> "validate_path", path |-> p, res |-> validate_path(fs, config, p),
                under |-> hist.loaded]
    /\ UNCHANGED <<fs, config, journal, pairings, cmd, hist, ncalls, srv>>

NextLoad ==
    \/ \E f \in LoadFiles : ChangeConfigFile(f)
    \/ ReloadConfig
    \/ \E p \in LoadPaths : ValidateLoaded(p)

SpecLoad == InitLoad /\ [][NextLoad]_vars

(***************************************************************************)
(* The pairings file under commands that overlap (commands/sse.rs 119-137, *)
(* 153-170) and requests that read it (sse.rs 25-53).  A command reads the *)
(* file, computes the new list and writes it with fs::write, which empties *)
(* the file and then writes the content; nothing locks the file.  Two      *)
(* callers can each have a command under way.                              *)
(***************************************************************************)
PairSlots == 1..2

InitPair ==
    /\ fs = ToolFs
    /\ config = NetConfig
    /\ call = NoCall
    /\ journal = <<>>
    /\ pairings \in {NoFile, FileOf(to_string_pretty(PairingConfig(<<>>)))}
    /\ cmd = [i \in PairSlots |-> NoCmd]
    /\ hist = [o \in Origins |-> "none"]
    /\ ncalls = 0
    /\ srv = <<>>

\* approve_origin, up to the call of fs::write; when the origin is in the
\* list the command is done
PairApprove(i, o) ==
    /\ cmd[i] = NoCmd
    /\ \/ ~pairings.exists \/ from_str(pairings.content).ok
    /\ LET approved_origins == IF pairings.exists
                               THEN from_str(pairings.content).config.approved_origins
                               ELSE <<>> IN
       IF SeqContains(approved_origins, o)
       THEN /\ hist' = [hist EXCEPT ![o] = "approved"]
            /\ UNCHANGED cmd
       ELSE /\ cmd' = [cmd EXCEPT ![i] =
                          [op |-> "approve_origin", origin |-> o, pc |-> "open",
                           json |-> to_string_pretty(PairingConfig(Append(approved_origins, o)))]]
            /\ UNCHANGED hist
    /\ UNCHANGED <<fs, config, call, journal, pairings, ncalls, srv>>

\* revoke_origin, up to the call of fs::write; without a file it is done
PairRevoke(i, o) ==
    /\ cmd[i] = NoCmd
    /\ \/ ~pairings.exists \/ from_str(pairings.content).ok
    /\ IF ~pairings.exists
       THEN /\ hist' = [hist EXCEPT ![o] = "revoked"]
            /\ UNCHANGED cmd
       ELSE /\ cmd' = [cmd EXCEPT ![i] =
                          [op |-> "revoke_origin", origin |-> o, pc |-> "open",
                           json |-> to_string_pretty(PairingConfig(
                                       SelectSeq(from_str(pairings.content).config.approved_origins,
                                                 LAMBDA x : x # o)))]]
            /\ UNCHANGED hist
    /\ UNCHANGED <<fs, config, call, journal, pairings, ncalls, srv>>

\* fs::write, first system call: the file is created or emptied
PairWriteOpen(i) ==
    /\ cmd[i] # NoCmd /\ cmd[i].pc = "open"
    /\ pairings' = FileOf(<<>>)
    /\ cmd' = [cmd EXCEPT ![i].pc = "write"]
    /\ UNCHANGED <<fs, config, call, journal, hist, ncalls, srv>>

\* fs::write, second system call: the content; the command returns Ok
PairWriteAll(i) ==
    /\ cmd[i] # NoCmd /\ cmd[i].pc = "write"
    /\ pairings' = FileOf(cmd[i].json)
    /\ hist' = [hist EXCEPT ![cmd[i].origin] =
                   IF cmd[i].op = "approve_origin" THEN "approved" ELSE "revoked"]
    /\ cmd' = [cmd EXCEPT ![i] = NoCmd]
    /\ UNCHANGED <<fs, config, call, journal, ncalls, srv>>

\* a request: pairing_middleware reads the file as it is at that moment
PairRequest(h) ==
    /\ ncalls < MaxRequests
    /\ ncalls' = ncalls + 1
    /\ \E verdict \in {pairing_middleware(pairings, h)} :
          /\ journal' = IF verdict = "forbidden"
                        THEN log_activity(journal, "system", "security", <<>>)
                        ELSE journal
          /\ call' = [tool |-> "request", header |-> h, status |-> verdict, file |-> pairings]
    /\ UNCHANGED <<fs, config, pairings, cmd, hist, srv>>

NextPair ==
    \/ \E i \in PairSlots, o \in Origins : PairApprove(i, o)
    \/ \E i \in PairSlots, o \in Origins : PairRevoke(i, o)
    \/ \E i \in PairSlots : PairWriteOpen(i)
    \/ \E i \in PairSlots : PairWriteAll(i)
    \/ \E h \in {OriginHeader(O1), OriginHeader(O2)} : PairRequest(h)

SpecPair == InitPair /\ [][NextPair]_vars

(***************************************************************************)
(* Claims about validate_path (checked under SpecV).                       *)
(***************************************************************************)
VCall == call.tool = "validate_path"
VTarget == target_abs(call.path)

RootOf(i) == canonicalize(fs, config.folders[i].path)
Usable(i) == config.folders[i].enabled /\ RootOf(i).ok

\* p is r, or r followed immediately by "/" or "\"
AtBoundary(p, r) ==
    \/ p = r
    \/ Len(p) > Len(r) /\ SubSeq(p, 1, Len(r)) = r /\ p[Len(r) + 1] \in {Sep, BSep}

\* p is r followed immediately by a separator and further characters
BelowBoundary(p, r) == AtBoundary(p, r) /\ Len(p) > Len(r) + 1

\* p has r as a string prefix with no separator at the boundary
PrefixOnly(p, r) ==
    Len(p) > Len(r) /\ SubSeq(p, 1, Len(r)) = r /\ ~AtBoundary(p, r)

\* the usable folders whose root contains p, by the sandbox's boundary rule
Matching(p) == { i \in 1..Len(config.folders) : Usable(i) /\ AtBoundary(p, RootOf(i).path) }
First(S) == CHOOSE i \in S : \A j \in S : i <= j

\* C2 (as claimed): validate_path denies every path that is neither equal to
\* nor beneath the canonical root of an enabled folder, and a folder that is
\* disabled or whose root cannot be resolved never grants access.
C2_DeniesOutsideEnabledFolders ==
    (VCall /\ call.res.ok) =>
        /\ Usable(call.res.folder)
        /\ \E i \in 1..Len(config.folders) :
              Usable(i) /\ PathStartsWith(VTarget, RootOf(i).path)

C7_LaterFolderAccepts ==
    (VCall /\ ~Contains(VTarget, DotDot)) =>
        LET Good == { i \in Matching(VTarget) : ~is_ignored(fs, VTarget, RootOf(i).path) } IN
        Good # {} => (call.res.ok /\ call.res.folder = First(Good))

\* C7 (amended): when a path lies beneath several enabled folders, the first
\* of them in configuration order decides alone: the path is accepted with
\* that folder if its rules do not exclude the path and is denied as excluded
\* if they do, whatever the later folders' rules say.
C7_FirstFolderDecides ==
    (VCall /\ ~Contains(VTarget, DotDot) /\ Cardinality(Matching(VTarget)) >= 2) =>
        LET i == First(Matching(VTarget)) IN
        IF is_ignored(fs, VTarget, RootOf(i).path)
        THEN ~call.res.ok /\ call.res.reason = "excluded"
        ELSE call.res.ok /\ call.res.folder = i

\* C7 witness: the first matching folder excludes the path, a later one does
\* not, and the path was denied
C7_Witness ==
    /\ VCall /\ ~Contains(VTarget, DotDot)
    /\ Cardinality(Matching(VTarget)) >= 2
    /\ is_ignored(fs, VTarget, RootOf(First(Matching(VTarget))).path)
    /\ \E j \in Matching(VTarget) : ~is_ignored(fs, VTarget, RootOf(j).path)
    /\ ~call.res.ok

\* a rule that is a plain name: no separator, no pattern character
PlainName(nm) ==
    nm # <<>> /\ \A k \in 1..Len(nm) : nm[k] \notin {Sep, Star, Quest, Hash, SP, "["}

\* the trimmed lines of the .mcpignore at root r
RulesAt(r) ==
    LET file == Child(r, IgnoreName) IN
    IF is_file(fs, file)
    THEN LET ls == Lines(fs[Real(fs, file).path].data) IN { Trim(ls[k]) : k \in 1..Len(ls) }
    ELSE {}

\* C8 (as claimed): a bare-name rule excludes the entry of that name at any
\* depth and everything beneath it; a rule "name/" excludes every file beneath
\* root/name; blank lines and # lines exclude nothing.
C8_ExclusionRules ==
    (VCall /\ ~Contains(VTarget, DotDot) /\ Matching(VTarget) # {}) =>
        LET r == RootOf(First(Matching(VTarget))).path
            rel == strip_prefix(VTarget, r)
            comps == Components(rel.rel) IN
        rel.ok =>
            /\ \A nm \in RulesAt(r) :
                  (PlainName(nm) /\ \E k \in 1..Len(comps) : comps[k] = nm)
                      => call.res.reason = "excluded"
            /\ \A rule \in RulesAt(r) :
                  (/\ Len(rule) >= 2 /\ rule[Len(rule)] = Sep
                   /\ PlainName(SubSeq(rule, 1, Len(rule) - 1))
                   /\ Len(comps) >= 2 /\ comps[1] = SubSeq(rule, 1, Len(rule) - 1))
                      => call.res.reason = "excluded"
            /\ (\A rule \in RulesAt(r) : rule = <<>> \/ rule[1] = Hash)
                  => call.res.reason # "excluded"

(***************************************************************************)
(* Claims about the tools (checked under Spec).                            *)
(***************************************************************************)
ToolCall == call.tool \notin {"none", "validate_path", "request"}

\* the real roots of the folders that are enabled and can be resolved
EnabledRoots == { RootOf(i).path : i \in { k \in 1..Len(config.folders) : Usable(k) } }

\* C1 (as claimed): every file or directory a tool call has read, created,
\* modified, moved or deleted lies, once symbolic links are resolved, beneath
\* the root of an enabled configured folder.
C1_ToolsStayInFolders ==
    ToolCall =>
        \A t \in call.rd \cup call.wr : \E r \in EnabledRoots : PathStartsWith(t, r)

\* the folder validate_path matches for p is read-only
MatchedReadOnly(p) ==
    LET v == validate_path(fs, config, p) IN
    v.ok /\ config.folders[v.folder].permission = ReadOnly

RefusedUnchanged == ~call.ok /\ ~call.changed

\* C4: when the folder matched for the path is read-only, write_file,
\* patch_file, delete_file, move_file (source and destination), copy_file
\* (destination), zip_files (output) and unzip_files (destination) fail and
\* leave the filesystem as it was; validate_destructive denies every path
\* that does not exist.
C4_ReadOnlyDenied ==
    /\ (call.tool \in {"write_file", "patch_file", "delete_file", "zip_files"}
        /\ MatchedReadOnly(call.path)) => RefusedUnchanged
    /\ (call.tool = "move_file"
        /\ (MatchedReadOnly(call.path) \/ MatchedReadOnly(call.path2))) => RefusedUnchanged
    /\ (call.tool \in {"copy_file", "unzip_files"}
        /\ MatchedReadOnly(call.path2)) => RefusedUnchanged
    /\ (call.tool \in {"delete_file", "move_file"} /\ ~call.changed
        /\ ~exists(fs, target_abs(call.path))) => ~call.ok
    /\ \A p \in ToolPaths : ~exists(fs, p) => ~validate_destructive(fs, config, p).ok

\* an archive was to be extracted into a read-only folder and was refused
C4_Witness ==
    /\ call.tool = "unzip_files"
    /\ MatchedReadOnly(call.path2)
    /\ call.err = "readonly"
    /\ ~call.changed

\* C5 (as claimed): every path at which a tool call created, overwrote or
\* removed something is one that validation for writing accepts, the
\* extracted entries of unzip_files and the created parent directories
\* included.
C5_MutationsValidated ==
    ToolCall => \A m \in call.made : validate_writable(fs, config, m).ok

\* an entry name that leaves the destination: absolute, or with a ".." segment
Escapes(name) == is_absolute(name) \/ SeqContains(SplitOn(name, Sep), DotDot)

\* C6 (as claimed): unzip_files writes nothing outside the destination; the
\* entries whose names leave the destination are skipped, and exactly the
\* other entries are extracted.
C6_UnzipStaysInDestination ==
    (call.tool = "unzip_files" /\ call.ok) =>
        LET dest == target_abs(call.path2)
            entries == fs[Real(fs, call.path).path].entries
            kept == { k \in 1..Len(entries) : ~Escapes(entries[k].name) } IN
        /\ \A w \in call.wr : PathStartsWith(w, Real(fs, dest).path)
        /\ { m \in call.made : is_file(fs, m) }
              = { PathJoin(dest, entries[k].name) : k \in kept }

(***************************************************************************)
(* Claims about the fourteen tools (checked under SpecAll).                *)
(***************************************************************************)
\* the journal entries that tools wrote
ToolEntries(j) == SelectSeq(j, LAMBDA e : e.category \in {"read", "write", "delete"})

C14_EveryCallTerminates ==
    ToolCall => call.err \notin {"diverges", "panic"}

(***************************************************************************)
(* Claims about configuration reloads (checked under SpecReload and, with  *)
(* fair scheduling, under FairReload).                                     *)
(***************************************************************************)
\* C12: a tool call sees one configuration from its first validation to its
\* last file operation: while a call is in progress the configuration in
\* memory is the one whose folders it validated against, the limit it reads
\* is that of the same configuration, and no reload changes the
\* configuration while a read guard is held.
C12_OneSnapshotPerCall ==
    /\ \A t \in Tasks :
          /\ srv.tasks[t].pc \in {"operate", "return"} =>
                srv.tasks[t].folders = config.folders
          /\ srv.tasks[t].pc = "return" =>
                srv.tasks[t].limit = config.max_file_size_mb
    /\ srv.pc = "assign" => Readers = {}
    /\ call.tool = "tool_call" =>
          (call.folders = call.config.folders /\ call.limit = call.config.max_file_size_mb)

\* C12 witness: a call validated its path while a reload with another
\* configuration, folders and limit both different, waits for the lock
C12_Witness ==
    \E t \in Tasks :
       /\ srv.tasks[t].pc = "return"
       /\ srv.pc = "write"
       /\ srv.new_config.folders # config.folders
       /\ srv.new_config.max_file_size_mb # config.max_file_size_mb

\* the configuration in memory is what load_config makes of the file
InSync == config = load_config(srv.file)

\* C13: after the external writes of the config file, whatever their number
\* and timing, the configuration in memory eventually equals what the file
\* holds as last written, and stays so, provided calls in progress end.
C13_EventuallyInSync == <>[]InSync

\* C13 witness: a second write of the file happened while the reload task
\* slept after the first event, and the memory has caught up with the file
C13_Witness ==
    /\ ncalls = MaxWrites
    /\ InSync
    /\ call.tool = "tool_call"
    /\ srv.events = 0 /\ srv.chan = 0 /\ srv.pc = "recv"
    /\ config # AppConfig(<<>>)

(***************************************************************************)
(* Claims about read_lines (checked under SpecLines).                      *)
(***************************************************************************)
\* C15 (as claimed): whatever the line arguments, read_lines of a readable
\* text file succeeds and selects lines start+1..end with
\* 0 <= start <= end <= total; tail = N selects the last min(N, total) lines
\* and overrides the other two; without arguments the first min(100, total)
\* lines are selected.
C15_LineArgumentsNeverFail ==
    call.tool = "read_lines" =>
       /\ call.ok
       /\ 0 <= call.out.start /\ call.out.start <= call.out.end
       /\ call.out.end <= call.out.total
       /\ hist.tail.some =>
             /\ call.out.end = call.out.total
             /\ call.out.end - call.out.start = Min(hist.tail.val, call.out.total)
       /\ (~hist.tail.some /\ ~hist.start_line.some /\ ~hist.end_line.some) =>
             (call.out.start = 0 /\ call.out.end = Min(100, call.out.total))

(***************************************************************************)
(* Claims about patch_file (checked under SpecPatch).                      *)
(***************************************************************************)
\* the search term of the operation occurs in the text
Occurs(op, text) ==
    IF op.regex THEN RegexCompiles(op.search) /\ \E i \in 1..(Len(text) + 1) : RegexAt(op.search, text, i)
    ELSE Find(text, op.search, 1) # 0

PatchCall == call.tool = "patch_file"
PatchedText == fs[Child(P_s, A_c)].data

\* C16: when no search term of the operations occurs in the content and
\* there are no line operations, patch_file leaves the content of the file
\* as it was, and the call, which fails only for an expression that does not
\* compile, reports 0 replacements for each operation.
C16_NoMatchNoChange ==
    (PatchCall /\ hist.lr = <<>> /\ hist.sr # <<>>
       /\ \A k \in 1..Len(hist.sr) : ~Occurs(hist.sr[k], hist.text)) =>
       /\ PatchedText = hist.text
       /\ call.ok => /\ call.out.content = hist.text
                     /\ call.out.replacements = [k \in 1..Len(hist.sr) |-> 0]
       /\ ~call.ok => \E k \in 1..Len(hist.sr) :
                         hist.sr[k].regex /\ ~RegexCompiles(hist.sr[k].search)

\* C16 witness: three operations, literal and regular expression, with and
\* without a limit, none of which matched a text of two lines
C16_Witness ==
    /\ PatchCall /\ call.ok
    /\ Len(hist.sr) = 3 /\ hist.lr = <<>>
    /\ hist.text = <<"a", NL, "b", NL>>
    /\ call.out.replacements = <<0, 0, 0>>

\* the ranges of the operations are well formed and pairwise disjoint
Disjoint(lr) ==
    /\ \A k \in 1..Len(lr) : lr[k].start_line >= 1 /\ lr[k].start_line <= lr[k].end_line
    /\ \A j \in 1..Len(lr), k \in 1..Len(lr) :
          j # k => (lr[j].end_line < lr[k].start_line \/ lr[k].end_line < lr[j].start_line)

\* the lines after each range, numbered as in `lines`, was replaced by the
\* content of its operation: line k and what follows
RECURSIVE ReplacedAsNumbered(_, _, _)
ReplacedAsNumbered(lines, lr, k) ==
    IF k > Len(lines) /\ \A j \in 1..Len(lr) : lr[j].start_line < k THEN <<>>
    ELSE IF \E j \in 1..Len(lr) : lr[j].start_line = k
    THEN Lines((CHOOSE op \in { lr[j] : j \in 1..Len(lr) } : op.start_line = k).content)
             \o ReplacedAsNumbered(lines, lr, k + 1)
    ELSE IF \E j \in 1..Len(lr) : lr[j].start_line < k /\ k <= lr[j].end_line
    THEN ReplacedAsNumbered(lines, lr, k + 1)
    ELSE (IF k <= Len(lines) THEN <<lines[k]>> ELSE <<>>)
             \o ReplacedAsNumbered(lines, lr, k + 1)

Reverse(q) == [k \in 1..Len(q) |-> q[Len(q) + 1 - k]]

\* C17 (as claimed): with pairwise disjoint ranges and no other operation,
\* the patched lines are those of the original with each range, as numbered
\* in the original, replaced by its content, and the operations declared in
\* the opposite order give the same file.
C17_DisjointRangesAsNumbered ==
    (PatchCall /\ hist.sr = <<>> /\ hist.lr # <<>> /\ Disjoint(hist.lr)) =>
       /\ call.ok
       /\ Lines(PatchedText) = ReplacedAsNumbered(Lines(hist.text), hist.lr, 1)
       /\ Lines(PatchedText)
             = ApplyLineReplace(SortDesc(Reverse(hist.lr)), Lines(hist.text)).lines

\* the operations leave the end of the text alone: no range reaches the last
\* line, no search term holds the last character or a wildcard, and no
\* replacement brings a line end
SparesEnd(text, sr, lr) ==
    /\ \A k \in 1..Len(lr) : lr[k].end_line < Len(Lines(text))
    /\ \A k \in 1..Len(sr) :
          /\ sr[k].search # <<>>
          /\ ~Contains(sr[k].replace, <<NL>>)
          /\ text # <<>> =>
                \A i \in 1..Len(sr[k].search) : sr[k].search[i] \notin {text[Len(text)], Dot}

\* a range that patch_file rejects
BadRange(op) == op.start_line = 0 \/ op.end_line = 0 \/ op.start_line > op.end_line

\* C18 (as claimed): a patch that leaves the end of the file alone keeps the
\* presence or absence of the trailing newline, with search/replace and with
\* line operations; and a line operation with start_line = 0, end_line = 0 or
\* start_line > end_line makes the call fail with the file unchanged.
C18_TrailingNewlineKept ==
    PatchCall =>
       /\ (call.ok /\ SparesEnd(hist.text, hist.sr, hist.lr)) =>
             (EndsWith(PatchedText, <<NL>>) <=> EndsWith(hist.text, <<NL>>))
       /\ (\E k \in 1..Len(hist.lr) : BadRange(hist.lr[k])) =>
             (~call.ok /\ PatchedText = hist.text)

(***************************************************************************)
(* Claims about list_directory (checked under SpecList).                   *)
(***************************************************************************)
\* the qualifying entries of the directory in the order of the listing
Qualifying == SortEntries(SelectEntries(fs, config, read_dir(fs, hist.path)))

\* C19 (as claimed): the qualifying entries are ordered directories first,
\* then by name without regard to case; for a page p >= 1 and the page size
\* s clamped to 1..100 the listing returns the entries at the positions
\* (p-1)*s+1 .. min(p*s, N), and the out-of-range message instead when
\* (p-1)*s >= N > 0.
C19_PageOfSortedEntries ==
    (call.tool = "list_directory" /\ hist.page >= 1) =>
       LET N == Len(Qualifying)
           p == hist.page
           s == clamp(hist.page_size, 1, 100) IN
       /\ \A i \in 1..N, j \in 1..N :
             i < j => /\ (Qualifying[j].is_dir => Qualifying[i].is_dir)
                      /\ (Qualifying[i].is_dir = Qualifying[j].is_dir) =>
                            ~StrLess(to_lowercase(Qualifying[j].name),
                                     to_lowercase(Qualifying[i].name))
       /\ call.ok
       /\ IF (p - 1) * s >= N /\ N > 0
          THEN call.out.kind = "out_of_range"
          ELSE /\ call.out.kind = "page"
               /\ call.out.entries = SubSeq(Qualifying, (p - 1) * s + 1, Min(p * s, N))

(***************************************************************************)
(* Claims about write_file and read_file (checked under SpecRT).           *)
(***************************************************************************)
\* the name has a supported extension that is read as text
SupportedText(path) ==
    LET filename == FileName(path) IN
    is_supported_extension(filename) /\ ~is_pdf(filename) /\ ~is_binary_file(filename)

\* the read that follows the successful write of the same path
ReadAfterWrite == call.tool = "read_file" /\ ncalls = 2 /\ SupportedText(hist.path)

\* after a successful write the file holds the content and nothing else, and
\* the directories above it exist
WrittenAsGiven ==
    (call.tool = "write_file" /\ call.ok) =>
       /\ is_dir(fs, Parent(hist.path))
       /\ is_file(fs, hist.path)
       /\ fs[Real(fs, hist.path).path].data = hist.content

\* C20 (as claimed): after a successful write_file(p, c), read_file(p)
\* returns exactly c, for every content c.
C20_RoundTrip ==
    /\ WrittenAsGiven
    /\ ReadAfterWrite => (call.ok /\ call.out = hist.content)

\* C20 (amended): after a successful write_file(p, c), read_file(p) returns
\* exactly c when the size of c does not exceed the configured
\* max_file_size_mb, and fails as too large when it does; write_file creates
\* the missing parent directories and replaces the previous content.
C20_RoundTripWithinLimit ==
    /\ WrittenAsGiven
    /\ ReadAfterWrite =>
          IF Len(hist.content) <= config.max_file_size_mb * MiB
          THEN call.ok /\ call.out = hist.content
          ELSE ~call.ok /\ call.err = "toolarge"

\* C20 witness: a content of two lines, written to a path two missing
\* directories down, was read back
C20_Witness ==
    /\ ReadAfterWrite /\ call.ok
    /\ hist.path = Child(Child(P_sx, <<"q">>), A_c)
    /\ hist.content = <<"a", NL, "b">>
    /\ call.out = hist.content

(***************************************************************************)
(* Claims about move_file (checked under SpecMove).                        *)
(***************************************************************************)
Moved == call # NoCall /\ call.tool = "move_file"
MoveSrc == target_abs(hist.source)
MoveDst == target_abs(hist.destination)

\* what a path holds: the content of the file it leads to, or the nodes below
\* it, by their paths from it
Held(f, p) ==
    IF is_file(f, p) THEN <<"file", read_node(f, p).node.data>>
    ELSE LET n == NodeOf(f, p) IN
         <<"tree", { <<SubSeq(Components(m), Len(Components(n)) + 1, Len(Components(m))), f[m]>> :
                       m \in Subtree(f, n) }>>

\* the call came to fs::rename, which failed
RenameFailed ==
    /\ validate_destructive(ToolFs, config, hist.source).ok
    /\ validate_writable(ToolFs, config, hist.destination).ok
    /\ ~exists(ToolFs, MoveDst)
    /\ create_dir_all(ToolFs, Parent(MoveDst)).ok
    /\ ~rename(create_dir_all(ToolFs, Parent(MoveDst)).fs, MoveSrc, MoveDst).ok

C21_Success ==
    Moved /\ call.ok =>
        /\ ~exists(fs, MoveSrc)
        /\ NodeOf(fs, MoveSrc) \notin DOMAIN fs
        /\ Held(fs, MoveDst) = Held(ToolFs, MoveSrc)

C21_Exists ==
    Moved /\ exists(ToolFs, MoveDst) => ~call.ok /\ fs = ToolFs

C21_File ==
    Moved /\ RenameFailed /\ is_file(ToolFs, MoveSrc) =>
        call.ok /\ ~exists(fs, MoveSrc)

C21_Dir ==
    Moved /\ RenameFailed /\ is_dir(ToolFs, MoveSrc) =>
        /\ ~call.ok /\ call.err = "crossdevice"
        /\ \A m \in Subtree(ToolFs, NodeOf(ToolFs, MoveSrc)) : m \in DOMAIN fs /\ fs[m] = ToolFs[m]

BatchDone == call # NoCall /\ call.tool = "batch_read"

\* the call succeeds and holds one result for every path, in order
C22_NeverFailsAsAWhole ==
    BatchDone =>
        /\ call.ok
        /\ Len(call.out.results) = Len(hist.paths)
        /\ \A i \in 1..Len(hist.paths) : call.out.results[i].path = hist.paths[i]

\* a path that cannot be read has its error inline, and a later file that
\* fits the budget is returned all the same
C22_ErrorsInline ==
    BatchDone /\ call.ok =>
        \A i \in 1..Len(hist.paths) :
            (~validate_path(BatchFs, config, hist.paths[i]).ok \/ ~is_file(BatchFs, hist.paths[i]))
            => call.out.results[i].status \in {"error", "notfile"}

\* after a file skipped for the budget no content is returned
C22_NothingAfterSkip ==
    BatchDone /\ call.ok =>
        \A i, j \in 1..Len(hist.paths) :
            i < j /\ call.out.results[i].status = "skipped"
            => call.out.results[j].status # "content"

\* C22: a batch_read call with 1 to 50 paths never fails as a whole for a
\* per-file error or for the size budget: each error is recorded inline and
\* the following paths are processed, and once a file has been skipped for
\* the budget no later path of the call has its content returned
C22_BatchRead == C22_NeverFailsAsAWhole /\ C22_ErrorsInline /\ C22_NothingAfterSkip

(***************************************************************************)
(* Claims about zip_files (checked under SpecZip).                         *)
(***************************************************************************)
ZipDone == call # NoCall /\ call.tool = "zip_files"
ZipOutputWritable == validate_writable(ToolFs, config, hist.output_path).ok
ZipDenied(i) == ~validate_path(ToolFs, config, hist.paths[i]).ok
ZipArchive == read_node(fs, target_abs(hist.output_path))

\* C23: zip_files continues past an input path that fails: with a writable
\* output path and an input that validation denies, the call still returns
\* success and every input that is a valid file is in the archive
C23_ZipContinuesPastFailures ==
    ZipDone /\ ZipOutputWritable /\ (\E i \in 1..Len(hist.paths) : ZipDenied(i)) =>
        /\ call.ok
        /\ \A i \in 1..Len(hist.paths) :
              ~ZipDenied(i) /\ is_file(ToolFs, hist.paths[i])
              => /\ ZipArchive.ok /\ ZipArchive.node.zip
                 /\ HasEntry(ZipArchive.node.entries, FileName(target_abs(hist.paths[i])))

(***************************************************************************)
(* Claims about search_files (checked under SpecSearch).                   *)
(***************************************************************************)
SearchDone == call # NoCall /\ call.tool = "search_files"

\* the lines of the result that are paths
SearchPathsOut == SelectSeq(call.out, LAMBDA l : l[1] # "more")

\* all the files that match, before the cut
SearchMatches == SearchFolders(fs, config, Trim(hist.pattern), hist.root_path, 1)

C24_ResultsValid ==
    SearchDone =>
        \A k \in 1..Len(SearchPathsOut) : validate_path(fs, config, SearchPathsOut[k]).ok

C24_BeneathRoot ==
    SearchDone /\ hist.root_path.some =>
        \A k \in 1..Len(SearchPathsOut) :
            /\ is_file(fs, SearchPathsOut[k])
            /\ PathStartsWith(SearchPathsOut[k], hist.root_path.val)

C24_CutAtHundred ==
    SearchDone /\ Len(SearchMatches) > 100 =>
        /\ Len(call.out) = 101
        /\ SubSeq(call.out, 1, 100) = SubSeq(SearchMatches, 1, 100)
        /\ call.out[101] = MoreResults(Len(SearchMatches) - 100)

\* C24: every path search_files returns passes validate_path under the
\* current configuration; with a root_path the result holds only files
\* beneath root_path; more than 100 matches are cut to the first 100,
\* followed by one line that gives the number left out
C24_SearchFiles == C24_ResultsValid /\ C24_BeneathRoot /\ C24_CutAtHundred

(***************************************************************************)
(* Claims about the journal (checked under SpecJournal).                   *)
(***************************************************************************)
\* the newest k lines of a journal, in their order
Newest(j, k) == SubSeq(j, Max(1, Len(j) - k + 1), Len(j))

\* the size a journal of lines of at most MaxLineBytes cannot pass
JournalBound == Max(MaxLogBytes + MaxLineBytes, (KeepLines + 1) * MaxLineBytes)

C25_AppendOnly ==
    ncalls > 0 /\ JournalBytes(hist.before) <= MaxLogBytes =>
        /\ Len(journal) = Len(hist.before) + 1
        /\ SubSeq(journal, 1, Len(hist.before)) = hist.before

C25_Rotation ==
    ncalls > 0 /\ JournalBytes(hist.before) > MaxLogBytes =>
        /\ Len(journal) = Len(Newest(hist.before, KeepLines)) + 1
        /\ SubSeq(journal, 1, Len(journal) - 1) = Newest(hist.before, KeepLines)

\* C25: an append that finds the journal at or below the size limit adds
\* exactly one line at the end and changes no earlier line; an append that
\* finds it above the limit first reduces it to its newest KeepLines lines, in
\* their order, and then adds the line; the size of the journal stays bounded
C25_JournalBounded ==
    /\ C25_AppendOnly
    /\ C25_Rotation
    /\ JournalBytes(journal) <= JournalBound

\* an append has found the journal too large and has cut it to its newest lines
C25_Witness ==
    /\ ncalls > 0
    /\ JournalBytes(hist.before) > MaxLogBytes /\ Len(hist.before) > KeepLines
    /\ Len(journal) = KeepLines + 1
    /\ journal[1] = hist.before[Len(hist.before) - KeepLines + 1]

\* C29: a zip_files call that returns an error leaves the filesystem as it
\* was: when the output path is writable and an input path is denied, no
\* archive is created at the output path, and a file that was there keeps
\* its content
C29_FailedZipLeavesNoTrace ==
    ZipDone /\ ~call.ok => fs = ToolFs

(***************************************************************************)
(* Claims about sequences of tool calls (checked under SpecWiden).         *)
(***************************************************************************)
\* the files validation denied as excluded by a rule at the start
ExcludedBefore ==
    { q \in DOMAIN hist.before :
        /\ hist.before[q].kind = "file"
        /\ validate_path(hist.before, config, q).reason = "excluded" }

\* no read returns what an excluded file held
C26_ExcludedStaysUnreadable ==
    call # NoCall /\ call.tool = "read_file" /\ call.ok =>
        \A q \in ExcludedBefore : call.out # hist.before[q].data

\* the rule file of the folder root is as it was
C26_MarkerKept ==
    P_ignore \in DOMAIN fs /\ fs[P_ignore] = hist.before[P_ignore]

\* the excluded files are where they were, and in no archive
C26_NotRelocated ==
    \A q \in ExcludedBefore :
        /\ q \in DOMAIN fs /\ fs[q] = hist.before[q]
        /\ \A z \in DOMAIN fs :
              fs[z].zip /\ z \notin DOMAIN hist.before
              => \A k \in 1..Len(fs[z].entries) : fs[z].entries[k].node # hist.before[q]

\* C26: tool calls cannot widen their own access: what a path denied as
\* excluded holds is not readable through a tool after any sequence of
\* write_file, patch_file, move_file, copy_file, delete_file, zip_files and
\* unzip_files; the rule file at the folder root is not changed or removed;
\* an excluded file is not relocated or archived through a directory above it
C26_NoWidening == C26_ExcludedStaysUnreadable /\ C26_MarkerKept /\ C26_NotRelocated

(***************************************************************************)
(* Claims about the loading of the configuration (checked under SpecLoad). *)
(***************************************************************************)
\* the file is there and holds a configuration as the application writes it
ValidConfigFile(file) ==
    file.exists /\ \E c \in ReloadConfigs : file = write_shared_config(c)

\* C27: loading the configuration fails closed: when the file is missing or
\* does not parse, at the start or at a reload, the configuration has no
\* folders and the default size limit of 50 MB, and a path validated under it
\* is denied
C27_LoadFailsClosed ==
    /\ ~ValidConfigFile(hist.loaded) =>
          config.folders = <<>> /\ config.max_file_size_mb = 50
    /\ call # NoCall /\ ~ValidConfigFile(call.under) => ~call.res.ok

\* a load has read a file cut short, and a path of the folder /s, validated
\* under what it gave, is denied
C27_Witness ==
    /\ hist.loaded.exists /\ Len(hist.loaded.content) = 2
    /\ call # NoCall /\ call.under = hist.loaded /\ call.path = Child(P_s, A_c)
    /\ ~call.res.ok

(***************************************************************************)
(* Claims about overlapping pairing commands (checked under SpecPair).     *)
(***************************************************************************)
PairIdle == \A i \in PairSlots : cmd[i] = NoCmd

PairList == from_str(pairings.content).config.approved_origins

\* with no command under way the file holds the origins whose last completed
\* command was approve_origin and none whose last was revoke_origin
C30_NoLostUpdate ==
    PairIdle =>
        \A o \in Origins :
            /\ hist[o] = "approved" => o \in ApprovedSet(pairings)
            /\ hist[o] = "revoked" => o \notin ApprovedSet(pairings)

\* the list holds no origin twice
C30_NoDuplicate ==
    pairings.exists /\ from_str(pairings.content).ok =>
        \A j, k \in 1..Len(PairList) : PairList[j] = PairList[k] => j = k

\* the file a request read was valid JSON
C30_ValidWhenRead ==
    call # NoCall /\ call.tool = "request" /\ call.file.exists => from_str(call.file.content).ok

\* C30: approve_origin and revoke_origin lose no update: after any
\* interleaving of calls the file holds every origin whose last completed
\* call was approve_origin and none whose last was revoke_origin, holds no
\* origin twice, and is valid JSON whenever a request reads it
C30_NoUpdateLost == C30_NoLostUpdate /\ C30_NoDuplicate /\ C30_ValidWhenRead

(***************************************************************************)
(* Claims about the network listener (checked under SpecNet).              *)
(***************************************************************************)
\* C9 (as claimed): a request is refused exactly when it carries an Origin
\* header whose value is not in the approved set; a refused request appends
\* exactly one security entry to the journal, any other request none.
C9_RefusedExactlyWhenUnapproved ==
    call.tool = "request" =>
        LET unapproved == call.header.present /\ call.header.value \notin call.approved IN
        /\ (call.status = "forbidden") <=> unapproved
        /\ call.logged = IF unapproved THEN 1 ELSE 0

\* the one-line rules exclude the path /s/<name>
RulesExclude(rules, p) == Lines(rules) = <<FileName(p)>>

\* C10 (as claimed): a request with origin o that comes after revoke_origin(o)
\* has completed is refused, one that comes after approve_origin(o) has
\* completed is allowed (no command on o being under way), and a validation
\* follows the .mcpignore as it is at that moment.
C10_AuthorizationCurrent ==
    /\ (call.tool = "request" /\ call.header.value \in Origins
        /\ call.busy # call.header.value) =>
           /\ call.settled = "revoked" => call.status = "forbidden"
           /\ call.settled = "approved" => call.status = "passed"
    /\ call.tool = "validate_path" => (call.res.ok <=> ~RulesExclude(call.rules, call.path))

\* C28: the origin check fails closed: when the pairings file is missing or
\* does not parse, every request that carries an Origin header is refused,
\* and no request with an Origin header is allowed unless that origin is in
\* the file at the time of the check
C28_OriginCheckFailsClosed ==
    call.tool = "request" /\ call.header.present =>
        (call.status = "passed" => call.header.value \in call.approved)

====
